---- MODULE Spec2Model ----
(***************************************************************************)
(* Temporal smoothing controllers, cut detector, crop comparators and crop  *)
(* engine of land2port.                                                    *)
(*                                                                         *)
(* A frame is identified by its arrival index (1, 2, ...), which stands    *)
(* for its usls::Image.  The viewer's output video is the sequence         *)
(* `rendered` of (image, crop) pairs written by process_and_display_crop.  *)
(* Lengths are integers in frame pixel units.                              *)
(***************************************************************************)
EXTENDS Integers, Sequences, FiniteSets, TLC

VARIABLES
    processor,            \* which smoothing strategy this run uses
    smooth_duration,      \* args.smooth_duration / smooth_duration_frames, in frames
    previous_crop,        \* Option<CropResult>
    previous_head_count,  \* usize
    history,              \* CropHistory.frames
    rendered,             \* frames written to the viewer, in write order
    nframes,              \* frames taken from the data loader so far
    pc,                   \* "running" | "done" | "failed"
    most_recent_image,    \* BallVideoProcessor: Option<Image>
    hbb_three_frames_ago, \* BallVideoProcessor: Option<Hbb>
    hbb_two_frames_ago,   \* BallVideoProcessor: Option<Hbb>
    hbb_last_frame,       \* BallVideoProcessor: Option<Hbb>
    cut_detector,         \* CutDetector.previous_score
    last,                 \* what the last step did, and the state it started from
    probe                 \* the call a function-level specification made last

ballvars == <<most_recent_image, hbb_three_frames_ago, hbb_two_frames_ago,
              hbb_last_frame, cut_detector>>

vars == <<processor, smooth_duration, previous_crop, previous_head_count,
          history, rendered, nframes, pc, ballvars, last, probe>>

-----------------------------------------------------------------------------
(* Bounds of the exploration *)

MaxFrames == 4

MaxDuration == 2

(* Frame geometry and configuration *)

FrameWidth == 90

FrameHeight == 80

SmoothPercentage == 10

-----------------------------------------------------------------------------
(* crop.rs: CropArea and CropResult *)

CropArea(x, y, w, h) == [x |-> x, y |-> y, width |-> w, height |-> h]

ZeroArea == CropArea(0, 0, 0, 0)

Single(a) == [kind |-> "Single", a |-> a, b |-> ZeroArea]

Stacked(a, b) == [kind |-> "Stacked", a |-> a, b |-> b]

Resize(a) == [kind |-> "Resize", a |-> a, b |-> ZeroArea]

None == [kind |-> "None", a |-> ZeroArea, b |-> ZeroArea]

Abs(n) == IF n < 0 THEN -n ELSE n

\* |a - b| / frame_width <= threshold_percent / 100 (+ f32::EPSILON, which
\* only admits the boundary itself), written without division for a positive
\* frame width.  With a frame width of 0 the quotient is NaN (0.0 / 0.0) or
\* infinite, and the comparison is false.
is_within_threshold(a, b, frame_width, threshold_percent) ==
    /\ frame_width # 0
    /\ Abs(a - b) * 100 <= threshold_percent * frame_width

is_within_percentage(self, other, frame_width, threshold_percent) ==
    /\ is_within_threshold(self.x, other.x, frame_width, threshold_percent)
    /\ is_within_threshold(self.y, other.y, frame_width, threshold_percent)
    /\ is_within_threshold(self.width, other.width, frame_width, threshold_percent)
    /\ is_within_threshold(self.height, other.height, frame_width, threshold_percent)

get_crop_class(head_count) ==
    CASE head_count = 0 -> 0
      [] head_count = 1 -> 1
      [] head_count = 2 -> 2
      [] head_count = 3 -> 3
      [] OTHER -> 4

is_crop_class_same(head_count1, head_count2) ==
    get_crop_class(head_count1) = get_crop_class(head_count2)

\* Variant: only the first regions of two stacked crops are compared.
is_crop_similar_first(crop1, crop2, width, threshold) ==
    /\ crop1.kind = crop2.kind
    /\ is_within_percentage(crop1.a, crop2.a, width, threshold)

is_crop_similar(crop1, crop2, width, threshold) ==
    CASE crop1.kind = "Single" /\ crop2.kind = "Single" ->
            is_within_percentage(crop1.a, crop2.a, width, threshold)
      [] crop1.kind = "Stacked" /\ crop2.kind = "Stacked" ->
            /\ is_within_percentage(crop1.a, crop2.a, width, threshold)
            /\ is_within_percentage(crop1.b, crop2.b, width, threshold)
      [] crop1.kind = "Resize" /\ crop2.kind = "Resize" ->
            is_within_percentage(crop1.a, crop2.a, width, threshold)
      [] OTHER -> FALSE

-----------------------------------------------------------------------------
(* history.rs: CropHistory *)

FrameData(crop, image, head_count) ==
    [crop |-> crop, image |-> image, head_count |-> head_count]

add(frames, crop, image, head_count) ==
    Append(frames, FrameData(crop, image, head_count))

\* the None of an Option<FrameData>
NoFrame == [crop |-> None, image |-> 0, head_count |-> 0]

peek_front(frames) == IF Len(frames) = 0 THEN NoFrame ELSE frames[1]

peek_back(frames) == IF Len(frames) = 0 THEN NoFrame ELSE frames[Len(frames)]

\* Variant: the newest record is removed.
pop_front_newest(frames) ==
    IF Len(frames) = 0 THEN [result |-> NoFrame, frames |-> frames]
    ELSE [result |-> frames[Len(frames)],
          frames |-> SubSeq(frames, 1, Len(frames) - 1)]

\* pop_front: what it returns and what it leaves
pop_front(frames) ==
    IF Len(frames) = 0 THEN [result |-> NoFrame, frames |-> frames]
    ELSE [result |-> frames[1], frames |-> Tail(frames)]

\* CropHistory::len
history_len(frames) == Len(frames)

is_empty(frames) == Len(frames) = 0

-----------------------------------------------------------------------------
(* The per-frame inputs: the detections' count and the crop that           *)
(* calculate_crop_area returned for them.                                  *)

compute_three_four_width(frame_height) == (frame_height * 3) \div 4

\* Variant: the right edge is not clamped.
clamp_x_for_width_left(x, width, frame_width) == IF x < 0 THEN 0 ELSE x

clamp_x_for_width(x, width, frame_width) ==
    IF x < 0 THEN 0
    ELSE IF x + width > frame_width THEN frame_width - width
    ELSE x

make_single_crop_centered(center_x, frame_width, frame_height) ==
    LET width == compute_three_four_width(frame_height)
    IN  CropArea(clamp_x_for_width(center_x - width \div 2, width, frame_width),
                 0, width, frame_height)

\* the Single crop the engine centres on center_x
SingleAt(center_x) ==
    Single(make_single_crop_centered(center_x, FrameWidth, FrameHeight))

\* half_stack_dims: one region of a stacked crop
HalfStack(x, y) ==
    CropArea(x, y, FrameWidth \div 2, ((FrameWidth \div 2) * 8) \div 9)

\* calculate_no_heads_crop for a graphic frame
FullFrame == Resize(CropArea(0, 0, FrameWidth, FrameHeight))

Inputs ==
    { [count |-> 0, crop |-> FullFrame],
      [count |-> 1, crop |-> SingleAt(34)],
      [count |-> 1, crop |-> SingleAt(42)],
      [count |-> 1, crop |-> SingleAt(60)],
      [count |-> 2, crop |-> SingleAt(50)],
      [count |-> 2, crop |-> Stacked(HalfStack(0, 20), HalfStack(45, 20))],
      [count |-> 5, crop |-> Stacked(HalfStack(6, 20), HalfStack(45, 20))] }

-----------------------------------------------------------------------------
(* video_processor_utils.rs: process_and_display_crop, as the frame it     *)
(* writes to the viewer.                                                   *)

Render(image, crop) == [image |-> image, crop |-> crop]

\* Variant: the drain takes the newest frame first (pop from the back).
FlushHistory_lifo(frames, crop) ==
    [i \in 1..Len(frames) |-> Render(frames[Len(frames) + 1 - i].image, crop)]

\* `while let Some(frame) = self.history.pop_front() { render(frame.image, crop) }`:
\* the render calls of a complete drain, oldest frame first.
FlushHistory(frames, crop) ==
    [i \in 1..Len(frames) |-> Render(frames[i].image, crop)]

-----------------------------------------------------------------------------
(* history_smoothing_video_processor.rs: process_frame_with_smoothing.     *)
(* Each branch yields: the render calls of its drain loop, the buffer it   *)
(* leaves, the crop_result it hands to the closing block (None when the    *)
(* frame is withheld) and the head_count that block stores.                *)

Outcome(branch, calls, frames, crop_result, head_count) ==
    [branch |-> branch, calls |-> calls, frames |-> frames,
     crop_result |-> crop_result, head_count |-> head_count]

\* Variant: the first frame's object count is not recorded.
SeedBranch_nocount(frames, latest_crop, current_head_count) ==
    Outcome("seed", <<>>, frames, latest_crop, 0)

\* No previous crop: adopt the latest crop.
SeedBranch(frames, latest_crop, current_head_count) ==
    Outcome("seed", <<>>, frames, latest_crop, current_head_count)

\* Variant: a similar frame makes the latest crop the previous one.
KeepBranch_drift(prev_crop, prev_count, frames, latest_crop, current_head_count) ==
    Outcome("keep", FlushHistory(frames, prev_crop), <<>>, latest_crop,
            current_head_count)

\* is_same_class && is_latest_crop_similar
KeepBranch(prev_crop, prev_count, frames, latest_crop, current_head_count) ==
    Outcome("keep", FlushHistory(frames, prev_crop), <<>>, prev_crop, prev_count)

\* Variant: the first changed frame is stashed and also rendered at once.
StashBranch_eager(frames, latest_crop, img, current_head_count) ==
    Outcome("stash", <<>>, add(frames, latest_crop, img, current_head_count),
            latest_crop, current_head_count)

\* change proposed, history empty
StashBranch(frames, latest_crop, img, current_head_count) ==
    Outcome("stash", <<>>, add(frames, latest_crop, img, current_head_count),
            None, current_head_count)

\* Variant: the comparison is off by one frame.
DurationReached_late(len, duration) == len = duration + 1

\* `self.history.len() == args.smooth_duration`
DurationReached(len, duration) == len = duration

\* Variant: the promotion drains the buffer but forgets `crop_result`.
ConfirmBranch_forgets(frames, img, latest_crop, current_head_count, duration) ==
    LET change_crop == peek_front(frames).crop
        change_head_count == peek_front(frames).head_count
    IN  IF DurationReached(Len(frames), duration)
        THEN Outcome("promote", FlushHistory(frames, change_crop), <<>>,
                     None, current_head_count)
        ELSE Outcome("extend", <<>>,
                     add(frames, change_crop, img, change_head_count),
                     None, current_head_count)

\* Variant: the first confirmation promotes, whatever the buffer holds.
ConfirmBranch_hasty(frames, img, latest_crop, current_head_count, duration) ==
    LET change_crop == peek_front(frames).crop
    IN  Outcome("promote", FlushHistory(frames, change_crop), <<>>,
                change_crop, current_head_count)

\* Variant: the confirming frame is buffered with its own crop and count.
ConfirmBranch_latest(frames, img, latest_crop, current_head_count, duration) ==
    LET change_crop == peek_front(frames).crop
    IN  IF DurationReached(Len(frames), duration)
        THEN Outcome("promote", FlushHistory(frames, change_crop), <<>>,
                     change_crop, current_head_count)
        ELSE Outcome("extend", <<>>,
                     add(frames, latest_crop, img, current_head_count),
                     None, current_head_count)

\* the hypothesis is confirmed once more
ConfirmBranch(frames, img, latest_crop, current_head_count, duration) ==
    LET change_crop == peek_front(frames).crop
        change_head_count == peek_front(frames).head_count
    IN  IF DurationReached(Len(frames), duration)
        THEN Outcome("promote", FlushHistory(frames, change_crop), <<>>,
                     change_crop, current_head_count)
        ELSE Outcome("extend", <<>>,
                     add(frames, change_crop, img, change_head_count),
                     None, current_head_count)

\* the crop the rejected hypothesis' frames are replayed with
CropToUse(prev_crop, change_crop, cut) ==
    IF cut
    THEN prev_crop
    ELSE IF prev_crop.kind = "Stacked" /\ change_crop.kind = "Single"
         THEN change_crop
         ELSE prev_crop

\* Variant: the rejected hypothesis' frames stay in the buffer.
RejectBranch_nodrain(prev_crop, frames, img, latest_crop, current_head_count, cut) ==
    Outcome("reject", <<>>, add(frames, latest_crop, img, current_head_count),
            None, current_head_count)

\* the hypothesis is rejected
RejectBranch(prev_crop, frames, img, latest_crop, current_head_count, cut) ==
    LET change_crop == peek_front(frames).crop
        crop_to_use == CropToUse(prev_crop, change_crop, cut)
    IN  Outcome("reject", FlushHistory(frames, crop_to_use),
                add(<<>>, latest_crop, img, current_head_count),
                None, current_head_count)

Smooth(prev_crop, prev_count, frames, img, latest_crop, current_head_count, duration, cut) ==
    IF prev_crop = None
    THEN SeedBranch(frames, latest_crop, current_head_count)
    ELSE IF /\ is_crop_class_same(current_head_count, prev_count)
            /\ is_crop_similar(latest_crop, prev_crop, FrameWidth, SmoothPercentage)
    THEN KeepBranch(prev_crop, prev_count, frames, latest_crop, current_head_count)
    ELSE IF is_empty(frames)
    THEN StashBranch(frames, latest_crop, img, current_head_count)
    ELSE IF /\ is_crop_similar(latest_crop, peek_front(frames).crop,
                               FrameWidth, SmoothPercentage)
            /\ is_crop_class_same(current_head_count, peek_front(frames).head_count)
    THEN ConfirmBranch(frames, img, latest_crop, current_head_count, duration)
    ELSE RejectBranch(prev_crop, frames, img, latest_crop, current_head_count, cut)

-----------------------------------------------------------------------------
(* usls::Hbb, by its top-left corner, size and confidence.  The positions  *)
(* explored are multiples of 8, which keeps the halves taken below exact.  *)

NoConf == -1

Hbb(x, y, w, h, conf) == [x |-> x, y |-> y, w |-> w, h |-> h, conf |-> conf]

NoHbb == [x |-> -1, y |-> -1, w |-> 0, h |-> 0, conf |-> NoConf]

from_xywh(x, y, w, h) == Hbb(x, y, w, h, NoConf)

cx(hbb) == hbb.x + hbb.w \div 2

cy(hbb) == hbb.y + hbb.h \div 2

from_cxcywh(center_x, center_y, w, h) ==
    Hbb(center_x - w \div 2, center_y - h \div 2, w, h, NoConf)

\* `confidence().unwrap_or(0.0)`
confidence_or_zero(hbb) == IF hbb.conf = NoConf THEN 0 ELSE hbb.conf

Min(a, b) == IF a < b THEN a ELSE b

Max(a, b) == IF a > b THEN a ELSE b

\* Variant: the last velocity alone, without the acceleration term.
predict_current_hbb_linear(three_frames_ago, two_frames_ago, last_frame, max_x, max_y) ==
    from_xywh(Min(Max(2 * last_frame.x - two_frames_ago.x, 0), max_x),
              Min(Max(2 * last_frame.y - two_frames_ago.y, 0), max_y),
              last_frame.w, last_frame.h)

\* video_processor_utils.rs: predict_current_hbb
predict_current_hbb(three_frames_ago, two_frames_ago, last_frame, max_x, max_y) ==
    LET v1_x == two_frames_ago.x - three_frames_ago.x
        v1_y == two_frames_ago.y - three_frames_ago.y
        v2_x == last_frame.x - two_frames_ago.x
        v2_y == last_frame.y - two_frames_ago.y
        ax == v2_x - v1_x
        ay == v2_y - v1_y
        predicted_x == (2 * (last_frame.x + v2_x) + ax) \div 2
        predicted_y == (2 * (last_frame.y + v2_y) + ay) \div 2
    IN  from_xywh(Min(Max(predicted_x, 0), max_x), Min(Max(predicted_y, 0), max_y),
                  last_frame.w, last_frame.h)

\* crop.rs: calculate_single_head_crop
calculate_single_head_crop(frame_width, frame_height, head) ==
    Single(make_single_crop_centered(cx(head), frame_width, frame_height))

\* Variant: the left edge of the box.
center_x_of_bbox_left(bbox) == bbox.x

\* crop.rs: calculate_bounding_box of a non-empty list
calculate_bounding_box(heads) ==
    LET I == 1..Len(heads)
        min_x == CHOOSE v \in {heads[i].x : i \in I} : \A i \in I : v <= heads[i].x
        min_y == CHOOSE v \in {heads[i].y : i \in I} : \A i \in I : v <= heads[i].y
        max_x == CHOOSE v \in {heads[i].x + heads[i].w : i \in I} :
                    \A i \in I : v >= heads[i].x + heads[i].w
        max_y == CHOOSE v \in {heads[i].y + heads[i].h : i \in I} :
                    \A i \in I : v >= heads[i].y + heads[i].h
    IN  CropArea(min_x, min_y, max_x - min_x, max_y - min_y)

center_x_of_bbox(bbox) == bbox.x + bbox.width \div 2

\* crop.rs: calculate_two_heads_crop where the two boxes span at most 3/4 of
\* the frame height
calculate_two_heads_crop_close(frame_width, frame_height, head1, head2) ==
    Single(make_single_crop_centered(
               center_x_of_bbox(calculate_bounding_box(<<head1, head2>>)),
               frame_width, frame_height))

xmin(hbb) == hbb.x

xmax(hbb) == hbb.x + hbb.w

ymin(hbb) == hbb.y

ymax(hbb) == hbb.y + hbb.h

area(hbb) == hbb.w * hbb.h

\* crop.rs: half_stack_dims
half_stack_dims(frame_width, frame_height) ==
    LET crop_width == frame_width \div 2
        crop_height == (crop_width * 8) \div 9
    IN  [crop_width |-> crop_width, crop_height |-> crop_height,
         default_y |-> (frame_height - crop_height) \div 2]

\* crop.rs: vertical_y_for_heads
vertical_y_for_heads(heads, default_y, frame_height, crop_height) ==
    LET I == 1..Len(heads)
        group_top == CHOOSE v \in {ymin(heads[i]) : i \in I} :
                        \A i \in I : v <= ymin(heads[i])
        group_bottom == CHOOSE v \in {ymax(heads[i]) : i \in I} :
                           \A i \in I : v >= ymax(heads[i])
    IN  IF Len(heads) = 0 THEN default_y
        ELSE IF group_top < default_y THEN 0
        ELSE IF group_bottom > default_y + crop_height
             THEN frame_height - crop_height
        ELSE default_y

\* Variant: the crop is centred on the left edge of the frame.
calculate_no_heads_crop_left(frame_width, frame_height, is_graphic) ==
    IF is_graphic
    THEN Resize(CropArea(0, 0, frame_width, frame_height))
    ELSE Single(make_single_crop_centered(0, frame_width, frame_height))

\* crop.rs: calculate_no_heads_crop
calculate_no_heads_crop(frame_width, frame_height, is_graphic) ==
    IF is_graphic
    THEN Resize(CropArea(0, 0, frame_width, frame_height))
    ELSE Single(make_single_crop_centered(frame_width \div 2, frame_width,
                                          frame_height))

\* Variant: the crop follows the first head of the list.
calculate_crop_from_largest_head_first(frame_width, frame_height, heads) ==
    calculate_single_head_crop(frame_width, frame_height, heads[1])

\* crop.rs: calculate_crop_from_largest_head; max_by keeps the last of the
\* heads of the largest area
calculate_crop_from_largest_head(frame_width, frame_height, heads) ==
    LET I == 1..Len(heads)
        largest == CHOOSE i \in I :
                      /\ \A j \in I : area(heads[j]) <= area(heads[i])
                      /\ \A j \in I : j > i => area(heads[j]) < area(heads[i])
        head_center_x == cx(heads[largest])
        height == frame_height
        width == (height * 3) \div 4
        x0 == head_center_x - width \div 2
        x == IF x0 < 0 THEN 0
             ELSE IF x0 + width > frame_width THEN frame_width - width
             ELSE x0
    IN  Single(CropArea(x, 0, width, height))

\* crop.rs: calculate_two_heads_crop
calculate_two_heads_crop(use_stack_crop, frame_width, frame_height, head1, head2) ==
    LET bbox == calculate_bounding_box(<<head1, head2>>)
        dims == half_stack_dims(frame_width, frame_height)
        crop_width == dims.crop_width
        crop_height == dims.crop_height
        default_y == dims.default_y
        left_head == IF cx(head1) <= cx(head2) THEN head1 ELSE head2
        right_head == IF cx(head1) <= cx(head2) THEN head2 ELSE head1
        crop1_y == vertical_y_for_heads(<<left_head>>, default_y, frame_height,
                                        crop_height)
        crop2_y == vertical_y_for_heads(<<right_head>>, default_y, frame_height,
                                        crop_height)
        \* how much of a head lies in the default crop starting at crop_x
        in_crop(head, crop_x) ==
            Max(Min(xmax(head), crop_x + crop_width) - Max(xmin(head), crop_x), 0)
        left_head_spans ==
            in_crop(left_head, 0) > 0 /\ in_crop(left_head, crop_width) > 0
        right_head_spans ==
            in_crop(right_head, 0) > 0 /\ in_crop(right_head, crop_width) > 0
        \* nudge crop1 right, then left, to hold the left head
        crop1_right == IF xmax(left_head) > 0 + crop_width
                       THEN xmax(left_head) - crop_width ELSE 0
        crop1_left == IF xmin(left_head) < crop1_right
                      THEN xmin(left_head) ELSE crop1_right
        \* nudge crop2 left, then right, to hold the right head
        crop2_left == IF xmin(right_head) < crop_width
                      THEN xmin(right_head) ELSE crop_width
        crop2_right == IF xmax(right_head) > crop2_left + crop_width
                       THEN xmax(right_head) - crop_width ELSE crop2_left
        nudged == left_head_spans \/ right_head_spans
        crop1_x == IF nudged THEN Min(Max(crop1_left, 0), crop_width) ELSE 0
        crop2_x == IF nudged THEN Min(Max(crop2_right, 0), crop_width)
                   ELSE crop_width
    IN  IF bbox.width <= (frame_height * 3) \div 4
        THEN calculate_two_heads_crop_close(frame_width, frame_height, head1, head2)
        ELSE IF use_stack_crop
        THEN Stacked(CropArea(crop1_x, crop1_y, crop_width, crop_height),
                     CropArea(crop2_x, crop2_y, crop_width, crop_height))
        ELSE calculate_crop_from_largest_head(frame_width, frame_height,
                                              <<head1, head2>>)

\* the fold of f32::min / f32::max over a non-empty collection
MinOf(S) == CHOOSE v \in S : \A u \in S : v <= u

MaxOf(S) == CHOOSE v \in S : \A u \in S : v >= u

\* `.max(0.0).min(hi)`
clamp_between(x, hi) == Min(Max(x, 0), hi)

\* heads.iter().filter(keep): the heads at the indices of `keep`, in order
RECURSIVE heads_where(_, _, _)
heads_where(heads, keep, i) ==
    IF i > Len(heads) THEN <<>>
    ELSE (IF i \in keep THEN <<heads[i]>> ELSE <<>>) \o heads_where(heads, keep, i + 1)

\* crop.rs: calculate_four_and_five_heads_crop, the loop that verifies every
\* head against the two crops built and moves the nearer crop to a head held
\* by neither; gives the final <<x1, x2>>
RECURSIVE verify_heads_contained(_, _, _, _, _)
verify_heads_contained(heads, i, x1, x2, crop_width) ==
    IF i > Len(heads) THEN <<x1, x2>>
    ELSE LET head == heads[i]
             in_crop1 == xmin(head) >= x1 /\ xmax(head) <= x1 + crop_width
             in_crop2 == xmin(head) >= x2 /\ xmax(head) <= x2 + crop_width
             \* twice the distances of the head's centre to the crops' centres
             dist_to_crop1 == Abs(2 * cx(head) - (2 * x1 + crop_width))
             dist_to_crop2 == Abs(2 * cx(head) - (2 * x2 + crop_width))
         IN  IF in_crop1 \/ in_crop2
             THEN verify_heads_contained(heads, i + 1, x1, x2, crop_width)
             ELSE IF dist_to_crop1 <= dist_to_crop2
             THEN verify_heads_contained(heads, i + 1,
                      clamp_between(xmin(head), crop_width), x2, crop_width)
             ELSE verify_heads_contained(heads, i + 1, x1,
                      clamp_between(xmax(head) - crop_width, crop_width), crop_width)

\* crop.rs: calculate_four_and_five_heads_crop
calculate_four_and_five_heads_crop(use_stack_crop, frame_width, frame_height, heads) ==
    LET I == 1..Len(heads)
        bbox == calculate_bounding_box(heads)
        dims == half_stack_dims(frame_width, frame_height)
        crop_width == dims.crop_width
        crop_height == dims.crop_height
        default_y == dims.default_y
        in_default(head) ==
            \/ xmin(head) >= 0 /\ xmax(head) <= 0 + crop_width
            \/ xmin(head) >= crop_width /\ xmax(head) <= crop_width + crop_width
        all_heads_contained == \A i \in I : in_default(heads[i])
        frame_center == frame_width \div 2
        crop1_heads == heads_where(heads, {i \in I : cx(heads[i]) < frame_center}, 1)
        crop2_heads == heads_where(heads, {i \in I : cx(heads[i]) >= frame_center}, 1)
        crop1_y == vertical_y_for_heads(crop1_heads, default_y, frame_height,
                                        crop_height)
        crop2_y == vertical_y_for_heads(crop2_heads, default_y, frame_height,
                                        crop_height)
        min_x(hs) == MinOf({xmin(hs[i]) : i \in 1..Len(hs)})
        max_x(hs) == MaxOf({xmax(hs[i]) : i \in 1..Len(hs)})
        x1 == IF Len(crop1_heads) = 0 THEN 0
              ELSE clamp_between(
                       IF max_x(crop1_heads) - min_x(crop1_heads) > crop_width
                       THEN (min_x(crop1_heads) + max_x(crop1_heads) - crop_width) \div 2
                       ELSE min_x(crop1_heads),
                       crop_width)
        x2 == IF Len(crop2_heads) = 0 THEN crop_width
              ELSE clamp_between(
                       IF max_x(crop2_heads) - min_x(crop2_heads) > crop_width
                       THEN (min_x(crop2_heads) + max_x(crop2_heads) - crop_width) \div 2
                       ELSE max_x(crop2_heads) - crop_width,
                       crop_width)
        final == verify_heads_contained(heads, 1, x1, x2, crop_width)
    IN  IF bbox.width <= (frame_height * 3) \div 4
        THEN Single(make_single_crop_centered(center_x_of_bbox(bbox), frame_width,
                                              frame_height))
        ELSE IF use_stack_crop
        THEN IF all_heads_contained
             THEN Stacked(CropArea(0, crop1_y, crop_width, crop_height),
                          CropArea(crop_width, crop2_y, crop_width, crop_height))
             ELSE Stacked(CropArea(final[1], crop1_y, crop_width, crop_height),
                          CropArea(final[2], crop2_y, crop_width, crop_height))
        ELSE calculate_crop_from_largest_head(frame_width, frame_height, heads)

\* crop.rs: calculate_three_heads_crop
calculate_three_heads_crop(use_stack_crop, frame_width, frame_height, heads) ==
    LET I == 1..Len(heads)
        areas == {area(heads[i]) : i \in I}
        min_area == MinOf(areas)
        max_area == MaxOf(areas)
        \* max_area / min_area <= 2.5; a quotient by 0 is infinite or NaN
        similar_size == min_area > 0 /\ 2 * max_area <= 5 * min_area
        centers == {cx(heads[i]) : i \in I}
        leftmost_center == MinOf(centers)
        rightmost_center == MaxOf(centers)
        middle_center == cx(heads[1]) + cx(heads[2]) + cx(heads[3])
                         - leftmost_center - rightmost_center
        spacing1 == middle_center - leftmost_center
        spacing2 == rightmost_center - middle_center
        \* max / min <= 2.0; a quotient by 0 is infinite or NaN
        equally_spaced == /\ Min(spacing1, spacing2) > 0
                          /\ Max(spacing1, spacing2) <= 2 * Min(spacing1, spacing2)
        crop1_height == (frame_height * 4) \div 5
        crop1_width == (crop1_height * 3) \div 2
        crop1_y == frame_height \div 10
        crop2_height == (frame_height * 4) \div 5
        crop2_width == (crop2_height * 9) \div 10
        crop2_y == (frame_height * 3) \div 20
        \* `find`: the first head whose centre is less than 1 px from c
        head_at(c) == heads[MinOf({i \in I : Abs(cx(heads[i]) - c) < 1})]
        head1 == head_at(leftmost_center)
        head2 == head_at(middle_center)
        min_x == Min(xmin(head1), xmin(head2))
        max_x == Max(xmax(head1), xmax(head2))
        center_between_two == (min_x + max_x) \div 2
        crop1_x == clamp_between(center_between_two - crop1_width \div 2,
                                 frame_width - crop1_width)
        crop2_x == clamp_between(rightmost_center - crop2_width \div 2,
                                 frame_width - crop2_width)
    IN  IF similar_size /\ equally_spaced /\ use_stack_crop
        THEN Stacked(CropArea(crop1_x, crop1_y, crop1_width, crop1_height),
                     CropArea(crop2_x, crop2_y, crop2_width, crop2_height))
        ELSE calculate_four_and_five_heads_crop(use_stack_crop, frame_width,
                                                frame_height, heads)

\* Variant: without a dominant head the crop follows the bounding box.
calculate_six_or_more_heads_crop_bbox(use_stack_crop, frame_width, frame_height, heads) ==
    Single(make_single_crop_centered(center_x_of_bbox(calculate_bounding_box(heads)),
                                     frame_width, frame_height))

\* crop.rs: calculate_six_or_more_heads_crop
calculate_six_or_more_heads_crop(use_stack_crop, frame_width, frame_height, heads) ==
    LET I == 1..Len(heads)
        bbox == calculate_bounding_box(heads)
        \* area >= other_area * 2.5 for every other head
        is_large(i) == \A j \in I : i = j \/ 2 * area(heads[i]) >= 5 * area(heads[j])
        large == {i \in I : is_large(i)}
        large_head_idx == MinOf(large)
        large_head == heads[large_head_idx]
        dims == half_stack_dims(frame_width, frame_height)
        crop_width == dims.crop_width
        crop_height == dims.crop_height
        crop_y == dims.default_y
        crop1_x == clamp_between(cx(large_head) - crop_width \div 2,
                                 frame_width - crop_width)
        remaining_heads == heads_where(heads, I \ {large_head_idx}, 1)
        remaining_bbox == calculate_bounding_box(remaining_heads)
        crop2_near == clamp_between(center_x_of_bbox(remaining_bbox) - crop_width \div 2,
                                    frame_width - crop_width)
        \* (crop1_x - crop2_x).abs() < crop_width * 0.5
        crop2_x == IF 2 * Abs(crop1_x - crop2_near) < crop_width
                   THEN IF 2 * crop1_x < frame_width
                        THEN frame_width - crop_width ELSE 0
                   ELSE crop2_near
    IN  IF bbox.width <= (frame_height * 3) \div 4
        THEN Single(make_single_crop_centered(center_x_of_bbox(bbox), frame_width,
                                              frame_height))
        ELSE IF large # {}
        THEN IF use_stack_crop
             THEN IF Len(remaining_heads) = 0
                  THEN Single(CropArea(crop1_x, 0, crop_width, frame_height))
                  ELSE Stacked(CropArea(crop1_x, crop_y, crop_width, crop_height),
                               CropArea(crop2_x, crop_y, crop_width, crop_height))
             ELSE calculate_single_head_crop(frame_width, frame_height, large_head)
        ELSE calculate_no_heads_crop(frame_width, frame_height, FALSE)

\* crop.rs: calculate_crop_area
calculate_crop_area(use_stack_crop, is_graphic, frame_width, frame_height, heads) ==
    CASE Len(heads) = 0 ->
            calculate_no_heads_crop(frame_width, frame_height, is_graphic)
      [] Len(heads) = 1 ->
            calculate_single_head_crop(frame_width, frame_height, heads[1])
      [] Len(heads) = 2 ->
            calculate_two_heads_crop(use_stack_crop, frame_width, frame_height,
                                     heads[1], heads[2])
      [] Len(heads) = 3 ->
            calculate_three_heads_crop(use_stack_crop, frame_width, frame_height,
                                       heads)
      [] Len(heads) \in 4..5 ->
            calculate_four_and_five_heads_crop(use_stack_crop, frame_width,
                                               frame_height, heads)
      [] OTHER ->
            calculate_six_or_more_heads_crop(use_stack_crop, frame_width,
                                             frame_height, heads)

-----------------------------------------------------------------------------
(* image.rs: CutDetector.  Similarity scores are in hundredths.            *)

NoScore == -1

\* rgb_hybrid_compare returns Err
ScoreErr == -2

HardFloor == 8

SimilarityThreshold == 15

PreviousSimilarityThreshold == 70

\* Variant: the stored score is not consulted.
is_cut_verdict_nohysteresis(previous_score, current_score, similarity_threshold, previous_similarity_threshold) ==
    current_score < HardFloor \/ current_score < similarity_threshold

\* Variant: the stored score has to be low, not high.
is_cut_verdict_lowprevious(previous_score, current_score, similarity_threshold, previous_similarity_threshold) ==
    IF previous_score # NoScore
    THEN \/ current_score < HardFloor
         \/ /\ current_score < similarity_threshold
            /\ previous_score < previous_similarity_threshold
    ELSE \/ current_score < HardFloor
         \/ current_score < similarity_threshold

\* CutDetector::is_cut: the verdict for a computed score
is_cut_verdict(previous_score, current_score, similarity_threshold, previous_similarity_threshold) ==
    IF previous_score # NoScore
    THEN \/ current_score < HardFloor
         \/ /\ current_score < similarity_threshold
            /\ previous_score > previous_similarity_threshold
    ELSE \/ current_score < HardFloor
         \/ current_score < similarity_threshold

\* Variant: the score of a frame reported as a cut is not stored.
is_cut_forgets(previous_score, score, similarity_threshold, previous_similarity_threshold) ==
    LET cut == is_cut_verdict(previous_score, score, similarity_threshold,
                              previous_similarity_threshold)
    IN  IF score = ScoreErr
        THEN [ok |-> FALSE, cut |-> FALSE, previous_score |-> previous_score]
        ELSE [ok |-> TRUE, cut |-> cut,
              previous_score |-> IF cut THEN previous_score ELSE score]

\* Variant: a failed comparison is reported as a cut.
is_cut_swallows(previous_score, score, similarity_threshold, previous_similarity_threshold) ==
    IF score = ScoreErr
    THEN [ok |-> TRUE, cut |-> TRUE, previous_score |-> previous_score]
    ELSE [ok |-> TRUE,
          cut |-> is_cut_verdict(previous_score, score, similarity_threshold,
                                 previous_similarity_threshold),
          previous_score |-> score]

\* CutDetector::is_cut as a whole, where the similarity computation yields
\* `score`: Err leaves through `?` before the verdict and the store; Ok
\* carries the verdict, and the score is stored.
is_cut(previous_score, score, similarity_threshold, previous_similarity_threshold) ==
    IF score = ScoreErr
    THEN [ok |-> FALSE, cut |-> FALSE, previous_score |-> previous_score]
    ELSE [ok |-> TRUE,
          cut |-> is_cut_verdict(previous_score, score, similarity_threshold,
                                 previous_similarity_threshold),
          previous_score |-> score]

\* the scores image_compare::rgb_hybrid_compare is let to return
Scores == {5, 10, 90}

-----------------------------------------------------------------------------
(* ball_video_processor.rs: process_frame_with_smoothing                   *)

NoImage == 0

\* Variant: the first object of the list.
highest_confidence_ball_first(objects) == objects[1]

\* `max_by` keeps the last of several equally confident objects
highest_confidence_ball(objects) ==
    LET I == 1..Len(objects)
        k == CHOOSE i \in I : \A j \in I :
                \/ confidence_or_zero(objects[j]) < confidence_or_zero(objects[i])
                \/ /\ confidence_or_zero(objects[j]) = confidence_or_zero(objects[i])
                   /\ j <= i
    IN  objects[k]

BallOutcome(branch, crop_result, needs_storage, three, two, last_frame) ==
    [branch |-> branch, crop_result |-> crop_result, needs_storage |-> needs_storage,
     three |-> three, two |-> two, last_frame |-> last_frame]

\* Variant: a cut frame is tracked like any other frame.
BallSmooth_keeps(prev_crop, three, two, last_frame, objects, latest_crop, cut) ==
    IF Len(objects) > 0
    THEN BallOutcome(IF cut THEN "cut" ELSE "single", latest_crop, TRUE,
                     two, last_frame, objects[1])
    ELSE BallOutcome(IF cut THEN "cut" ELSE "latest", latest_crop, TRUE,
                     two, last_frame, NoHbb)

\* Variant: the newest position goes to the oldest slot.
BallSmooth_newest_first(prev_crop, three, two, last_frame, objects, latest_crop, cut) ==
    IF cut
    THEN BallOutcome("cut", latest_crop, TRUE, NoHbb, NoHbb, NoHbb)
    ELSE IF Len(objects) > 0
    THEN BallOutcome("single", latest_crop, TRUE, objects[1], three, two)
    ELSE BallOutcome("latest", latest_crop, TRUE, NoHbb, three, two)

\* Variant: a frame without detections never uses the predictor.
BallSmooth_noprediction(prev_crop, three, two, last_frame, objects, latest_crop, cut) ==
    IF cut
    THEN BallOutcome("cut", latest_crop, TRUE, NoHbb, NoHbb, NoHbb)
    ELSE IF Len(objects) > 0
    THEN BallOutcome("single", latest_crop, TRUE, two, last_frame, objects[1])
    ELSE IF prev_crop # None
    THEN BallOutcome("previous", prev_crop, FALSE, two, last_frame, NoHbb)
    ELSE BallOutcome("latest", latest_crop, TRUE, two, last_frame, NoHbb)

\* Variant: a box detected on the cut frame is recorded.
BallSmooth_records_cut(prev_crop, three, two, last_frame, objects, latest_crop, cut) ==
    IF cut
    THEN BallOutcome("cut", latest_crop, TRUE, NoHbb, NoHbb,
                     IF Len(objects) > 0 THEN objects[1] ELSE NoHbb)
    ELSE BallSmooth_keeps(prev_crop, three, two, last_frame, objects, latest_crop, FALSE)

BallSmooth(prev_crop, three, two, last_frame, objects, latest_crop, cut) ==
    IF cut
    THEN BallOutcome("cut", latest_crop, TRUE, NoHbb, NoHbb, NoHbb)
    ELSE IF Len(objects) > 1
    THEN LET ball == highest_confidence_ball(objects)
         IN  BallOutcome("multiple",
                         calculate_single_head_crop(FrameWidth, FrameHeight, ball),
                         TRUE, two, last_frame,
                         from_cxcywh(cx(ball), cy(ball), ball.w, ball.h))
    ELSE IF Len(objects) > 0
    THEN BallOutcome("single", latest_crop, TRUE, two, last_frame, objects[1])
    ELSE IF three # NoHbb /\ two # NoHbb /\ last_frame # NoHbb
    THEN LET current_hbb == predict_current_hbb(three, two, last_frame,
                                                FrameWidth, FrameHeight)
         IN  BallOutcome("predicted",
                         calculate_single_head_crop(FrameWidth, FrameHeight, current_hbb),
                         TRUE, two, last_frame, current_hbb)
    ELSE IF prev_crop # None
    THEN BallOutcome("previous", prev_crop, FALSE, two, last_frame, NoHbb)
    ELSE BallOutcome("latest", latest_crop, TRUE, two, last_frame, NoHbb)

\* the detections of a frame of the ball stream, and the crop that
\* calculate_crop_area returned for them
BallAt(x, conf) == Hbb(x, 32, 8, 8, conf)

BallInputs ==
    { [objects |-> <<>>, crop |-> SingleAt(FrameWidth \div 2)],
      [objects |-> <<BallAt(40, 90)>>,
       crop |-> calculate_single_head_crop(FrameWidth, FrameHeight, BallAt(40, 90))],
      [objects |-> <<BallAt(56, 80), BallAt(16, 60)>>,
       crop |-> calculate_two_heads_crop_close(FrameWidth, FrameHeight,
                                               BallAt(56, 80), BallAt(16, 60))],
      [objects |-> <<BallAt(16, NoConf), BallAt(56, 80)>>,
       crop |-> calculate_two_heads_crop_close(FrameWidth, FrameHeight,
                                               BallAt(16, NoConf), BallAt(56, 80))] }

-----------------------------------------------------------------------------
(* The state machine *)

Processors == {"history", "simple", "ball"}

NoInput == [count |-> 0, crop |-> None]

Step(branch, outcome, input, cut) ==
    [branch |-> branch, outcome |-> outcome, img |-> nframes + 1,
     crop |-> input.crop, count |-> input.count, cut |-> cut,
     prev |-> previous_crop, prev_count |-> previous_head_count,
     frames |-> history, rendered |-> rendered,
     score |-> NoScore, detector |-> cut_detector,
     hbbs |-> <<hbb_three_frames_ago, hbb_two_frames_ago, hbb_last_frame>>,
     objects |-> <<>>, track |-> last.track, streak |-> <<>>,
     slots |-> last.slots]

\* no function-level call was made
NoProbe == [fn |-> "none"]

\* the fields of the processors as their `new` leaves them
Constructed ==
    /\ previous_crop = None
    /\ previous_head_count = 0
    /\ history = <<>>
    /\ rendered = <<>>
    /\ nframes = 0
    /\ pc = "running"
    /\ most_recent_image = NoImage
    /\ hbb_three_frames_ago = NoHbb
    /\ hbb_two_frames_ago = NoHbb
    /\ hbb_last_frame = NoHbb
    /\ cut_detector = NoScore
    /\ last = [branch |-> "init", outcome |-> "ok", img |-> 0,
               crop |-> None, count |-> 0, cut |-> "no",
               prev |-> None, prev_count |-> 0,
               frames |-> <<>>, rendered |-> <<>>,
               score |-> NoScore, detector |-> NoScore,
               hbbs |-> <<NoHbb, NoHbb, NoHbb>>,
               objects |-> <<>>, track |-> <<>>, streak |-> <<>>,
               slots |-> <<>>]

Init ==
    /\ processor \in Processors
    /\ smooth_duration \in 0..MaxDuration
    \* only the history-buffered processor reads more than `> 0` of it
    /\ processor # "history" => smooth_duration <= 1
    /\ Constructed
    /\ probe = NoProbe

Running == pc = "running" /\ nframes < MaxFrames

\* Variant: the smoothing step runs whatever the duration is.
UsesSmoothing_always(duration) == duration >= 0

\* process_video: `if args.smooth_duration > 0`
UsesSmoothing(duration) == duration > 0

\* process_video, `else` arm: the latest crop is rendered as it is.
\* fail = 1: process_and_display_crop returns Err and `?` ends the run.
PassThrough(input, fail) ==
    /\ Running
    /\ ~ UsesSmoothing(smooth_duration)
    /\ nframes' = nframes + 1
    /\ IF fail = 1
       THEN /\ rendered' = rendered
            /\ pc' = "failed"
            /\ last' = Step("passthrough", "err", input, "no")
       ELSE /\ rendered' = Append(rendered, Render(nframes + 1, input.crop))
            /\ pc' = "running"
            /\ last' = Step("passthrough", "ok", input, "no")
    /\ UNCHANGED <<probe, ballvars, processor, smooth_duration, previous_crop,
                   previous_head_count, history>>

\* HistorySmoothingVideoProcessor::process_frame_with_smoothing on one frame.
\* cut: what image::is_cut returns where the frame reaches it ("err": Err).
\* fail = k > 0: the k-th process_and_display_crop call of the frame returns
\* Err; the frame popped for it is gone and `?` ends the run.
HistoryFrame(input, cut, fail) ==
    LET img == nframes + 1
        out == Smooth(previous_crop, previous_head_count, history, img,
                      input.crop, input.count, smooth_duration, cut = "cut")
        calls == IF out.crop_result # None
                 THEN Append(out.calls, Render(img, out.crop_result))
                 ELSE out.calls
        \* observer: the candidates of the consecutive frames, this one
        \* included, that each failed the comparison with the previous crop
        \* and, after the first, passed the comparison with the first
        proposes == /\ previous_crop # None
                    /\ ~ (/\ is_crop_class_same(input.count, previous_head_count)
                          /\ is_crop_similar(input.crop, previous_crop,
                                             FrameWidth, SmoothPercentage))
        run == IF Len(last.streak) > smooth_duration THEN <<>> ELSE last.streak
        candidate == [crop |-> input.crop, count |-> input.count]
        streak == IF ~ proposes
                  THEN <<>>
                  ELSE IF /\ run # <<>>
                          /\ is_crop_similar(input.crop, run[1].crop,
                                             FrameWidth, SmoothPercentage)
                          /\ is_crop_class_same(input.count, run[1].count)
                  THEN Append(run, candidate)
                  ELSE <<candidate>>
    IN  /\ Running
        /\ processor = "history"
        /\ UsesSmoothing(smooth_duration)
        /\ out.branch = "reject" \/ cut = "no"
        /\ fail <= Len(calls)
        /\ cut = "err" => fail = 0
        /\ nframes' = img
        /\ IF cut = "err"
           THEN /\ pc' = "failed"
                /\ last' = [Step(out.branch, "err", input, cut) EXCEPT !.streak = streak]
                /\ UNCHANGED <<previous_crop, previous_head_count, history, rendered>>
           ELSE IF fail = 0
           THEN /\ pc' = "running"
                /\ last' = [Step(out.branch, "ok", input, cut) EXCEPT !.streak = streak]
                /\ rendered' = rendered \o calls
                /\ history' = out.frames
                /\ IF out.crop_result # None
                   THEN /\ previous_crop' = out.crop_result
                        /\ previous_head_count' = out.head_count
                   ELSE UNCHANGED <<previous_crop, previous_head_count>>
           ELSE /\ pc' = "failed"
                /\ last' = [Step(out.branch, "err", input, cut) EXCEPT !.streak = streak]
                /\ rendered' = rendered \o SubSeq(calls, 1, fail - 1)
                /\ IF fail <= Len(out.calls)
                   THEN /\ history' = SubSeq(history, fail + 1, Len(history))
                        /\ UNCHANGED <<previous_crop, previous_head_count>>
                   ELSE /\ history' = out.frames
                        /\ previous_crop' = out.crop_result
                        /\ previous_head_count' = out.head_count
        /\ UNCHANGED <<probe, ballvars, processor, smooth_duration>>

\* Variant: the latest crop is always taken.
SimpleSmooth_latest(prev_crop, latest_crop) == latest_crop

\* SimpleSmoothingVideoProcessor::process_frame_with_smoothing: the crop it
\* picks on a frame `width` wide with args.smooth_percentage as given
SimpleSmoothWith(prev_crop, latest_crop, width, smooth_percentage) ==
    IF prev_crop # None
    THEN IF is_crop_similar(latest_crop, prev_crop, width, smooth_percentage)
         THEN prev_crop
         ELSE latest_crop
    ELSE latest_crop

\* the same on the frames of the pipeline below
SimpleSmooth(prev_crop, latest_crop) ==
    SimpleSmoothWith(prev_crop, latest_crop, FrameWidth, SmoothPercentage)

SimpleFrame(input, fail) ==
    LET crop_result == SimpleSmooth(previous_crop, input.crop)
    IN  /\ Running
        /\ processor = "simple"
        /\ UsesSmoothing(smooth_duration)
        /\ nframes' = nframes + 1
        /\ previous_crop' = crop_result
        /\ IF fail = 1
           THEN /\ rendered' = rendered
                /\ pc' = "failed"
                /\ last' = Step("simple", "err", input, "no")
           ELSE /\ rendered' = Append(rendered, Render(nframes + 1, crop_result))
                /\ pc' = "running"
                /\ last' = Step("simple", "ok", input, "no")
        /\ UNCHANGED <<probe, ballvars, processor, smooth_duration, previous_head_count, history>>

\* BallVideoProcessor::process_frame_with_smoothing on one frame.
\* score: what the similarity computation yields where the detector is
\* called (ScoreErr: it fails and `?` ends the run before anything is stored).
\* fail = 1: process_and_display_crop returns Err.
BallFrame(input, score, fail) ==
    LET img == nframes + 1
        called == most_recent_image # NoImage
        res == is_cut(cut_detector, score, SimilarityThreshold,
                      PreviousSimilarityThreshold)
        cut == IF called THEN res.cut ELSE TRUE
        out == BallSmooth(previous_crop, hbb_three_frames_ago, hbb_two_frames_ago,
                          hbb_last_frame, input.objects, input.crop, cut)
        step == [count |-> Len(input.objects), crop |-> input.crop]
        \* the positions recorded since the last cut, oldest first
        track == IF cut THEN <<>>
                 ELSE IF out.last_frame # NoHbb THEN Append(last.track, out.last_frame)
                 ELSE last.track
        \* what each frame since the last cut wrote to hbb_last_frame
        slots == IF cut THEN <<>> ELSE Append(last.slots, out.last_frame)
    IN  /\ pc = "running" /\ nframes < MaxFrames + 1
        /\ processor = "ball"
        /\ UsesSmoothing(smooth_duration)
        /\ IF called THEN score \in Scores \cup {ScoreErr} ELSE score = NoScore
        /\ score = ScoreErr => fail = 0
        /\ nframes' = img
        /\ IF called /\ ~ res.ok
           THEN /\ pc' = "failed"
                /\ last' = [Step("ball", "err", step, "err") EXCEPT !.score = score, !.objects = input.objects]
                /\ UNCHANGED <<ballvars, previous_crop, rendered>>
           ELSE /\ cut_detector' = IF called THEN res.previous_score ELSE cut_detector
                /\ most_recent_image' = img
                /\ hbb_three_frames_ago' = out.three
                /\ hbb_two_frames_ago' = out.two
                /\ hbb_last_frame' = out.last_frame
                /\ previous_crop' = IF out.needs_storage THEN out.crop_result
                                    ELSE previous_crop
                /\ IF fail = 1
                   THEN /\ rendered' = rendered
                        /\ pc' = "failed"
                        /\ last' = [Step(out.branch, "err", step,
                                         IF cut THEN "cut" ELSE "no")
                                    EXCEPT !.score = score, !.objects = input.objects,
                                           !.track = track, !.slots = slots]
                   ELSE /\ rendered' = Append(rendered, Render(img, out.crop_result))
                        /\ pc' = "running"
                        /\ last' = [Step(out.branch, "ok", step,
                                         IF cut THEN "cut" ELSE "no")
                                    EXCEPT !.score = score, !.objects = input.objects,
                                           !.track = track, !.slots = slots]
        /\ UNCHANGED <<probe, processor, smooth_duration, previous_head_count, history>>

\* process_video: model.forward, annotate or calculate_crop_area returns Err
\* before the frame reaches the smoothing step.
UpstreamError ==
    /\ Running
    /\ pc' = "failed"
    /\ last' = Step("upstream", "err", NoInput, "no")
    /\ UNCHANGED <<probe, ballvars, processor, smooth_duration, previous_crop,
                   previous_head_count, history, rendered, nframes>>

\* process_video: the data loader is exhausted (or the window is closed, or
\* Escape is pressed) and the loop ends; process_video returns Ok(()).
EndOfStream ==
    /\ pc = "running"
    /\ pc' = "done"
    /\ last' = Step("eos", "ok", NoInput, "no")
    /\ UNCHANGED <<probe, ballvars, processor, smooth_duration, previous_crop,
                   previous_head_count, history, rendered, nframes>>

Next ==
    \/ \E input \in Inputs, fail \in 0..1 : PassThrough(input, fail)
    \/ \E input \in Inputs, cut \in {"no", "cut", "err"}, fail \in 0..(MaxDuration + 2) :
          HistoryFrame(input, cut, fail)
    \/ \E input \in Inputs, fail \in 0..1 : SimpleFrame(input, fail)
    \/ \E input \in BallInputs, score \in Scores \cup {ScoreErr, NoScore}, fail \in 0..1 :
          BallFrame(input, score, fail)
    \/ UpstreamError
    \/ EndOfStream

Spec == Init /\ [][Next]_vars

\* The runs of the history-buffered processor alone.
InitHistory == Init /\ processor = "history"

NextHistory ==
    \/ \E input \in Inputs, fail \in 0..1 : PassThrough(input, fail)
    \/ \E input \in Inputs, cut \in {"no", "cut", "err"}, fail \in 0..(MaxDuration + 2) :
          HistoryFrame(input, cut, fail)
    \/ UpstreamError
    \/ EndOfStream

SpecHistory == InitHistory /\ [][NextHistory]_vars

-----------------------------------------------------------------------------
(* One CutDetector called on a stream of image pairs.  `probe` holds the   *)
(* detector's two thresholds and the last call: the stored score it found, *)
(* the score computed, and what it returned.                               *)

SimilarityThresholds == {5, 15, 30}

\* 6 lies below the hard floor, 10 below two of the similarity thresholds
PreviousSimilarityThresholds == {6, 10, 70, 80}

\* scores around the floor and the thresholds
CutScores == {0, 7, 8, 14, 15, 29, 30, 70, 71, 80, 81, 100}

pipeline == <<processor, smooth_duration, previous_crop, previous_head_count, history, rendered, nframes, pc, last>>

\* CutDetector::new
InitCut ==
    /\ processor = "ball"
    /\ smooth_duration = 1
    /\ Constructed
    /\ \E st \in SimilarityThresholds, pt \in PreviousSimilarityThresholds :
          probe = [fn |-> "new", similarity_threshold |-> st,
                   previous_similarity_threshold |-> pt,
                   before |-> NoScore, score |-> NoScore,
                   ok |-> TRUE, cut |-> FALSE, stored |-> FALSE,
                   last_cut |-> FALSE]

\* one call of CutDetector::is_cut; last_cut is what the last call before
\* it that returned Ok reported
CutCall(score) ==
    LET res == is_cut(cut_detector, score, probe.similarity_threshold,
                      probe.previous_similarity_threshold)
    IN  /\ cut_detector' = res.previous_score
        /\ probe' = [probe EXCEPT !.fn = "is_cut", !.before = cut_detector,
                                  !.score = score, !.ok = res.ok,
                                  !.cut = res.cut,
                                  !.stored = probe.stored \/ res.ok,
                                  !.last_cut = IF probe.fn = "is_cut" /\ probe.ok
                                               THEN probe.cut
                                               ELSE probe.last_cut]
        /\ UNCHANGED <<pipeline, most_recent_image, hbb_three_frames_ago,
                       hbb_two_frames_ago, hbb_last_frame>>

NextCut == \E score \in CutScores \cup {ScoreErr} : CutCall(score)

SpecCut == InitCut /\ [][NextCut]_vars

-----------------------------------------------------------------------------
(* The comparators of crop.rs applied to bounded arguments.  `probe` holds *)
(* the frame width and threshold of the stream and the last call.          *)

\* head counts 0..MaxCount
MaxCount == 7

\* frame widths: an empty frame, the frame of the smoothing runs, a wide one
CompareWidths == {0, FrameWidth, 144}

\* smooth_percentage values
CompareThresholds == {0, 5, SmoothPercentage}

\* rectangles 9 px and 10 px apart (10 % of FrameWidth is 9 px), the two
\* default halves of a stacked crop, and the empty rectangle
CompareRects ==
    { ZeroArea, CropArea(0, 0, 60, 80), CropArea(9, 0, 60, 80),
      CropArea(10, 0, 60, 80), HalfStack(0, 20), HalfStack(45, 20) }

CompareCrops ==
    {Single(r) : r \in CompareRects} \cup {Resize(r) : r \in CompareRects}
    \cup {Stacked(r1, r2) : r1 \in {HalfStack(0, 20), CropArea(9, 0, 60, 80)}, r2 \in CompareRects}

InitCompare ==
    /\ processor = "history"
    /\ smooth_duration = 1
    /\ Constructed
    /\ \E w \in CompareWidths, t \in CompareThresholds :
          probe = [fn |-> "none", frame_width |-> w, threshold |-> t,
                   args |-> <<>>, result |-> FALSE]

\* one call on the arguments drawn, and its result
Called(fn, args, result) ==
    /\ probe.fn = "none"
    /\ probe' = [probe EXCEPT !.fn = fn, !.args = args, !.result = result]
    /\ UNCHANGED <<pipeline, ballvars>>

ClassCall(head_count1, head_count2) ==
    Called("is_crop_class_same", <<head_count1, head_count2>>,
           is_crop_class_same(head_count1, head_count2))

WithinCall(self, other) ==
    Called("is_within_percentage", <<self, other>>,
           is_within_percentage(self, other, probe.frame_width, probe.threshold))

SimilarCall(crop1, crop2) ==
    Called("is_crop_similar", <<crop1, crop2>>,
           is_crop_similar(crop1, crop2, probe.frame_width, probe.threshold))

NextCompare ==
    \/ \E n1 \in 0..MaxCount, n2 \in 0..MaxCount : ClassCall(n1, n2)
    \/ \E r1 \in CompareRects, r2 \in CompareRects : WithinCall(r1, r2)
    \/ \E d1 \in CompareCrops, d2 \in CompareCrops : SimilarCall(d1, d2)

SpecCompare == InitCompare /\ [][NextCompare]_vars

-----------------------------------------------------------------------------
(* One frame of the simple processor, for every previous crop it can hold, *)
(* every frame width and every smooth_percentage drawn.                    *)

InitSimple ==
    /\ processor = "simple"
    /\ smooth_duration = 1
    /\ Constructed
    /\ \E w \in CompareWidths, t \in CompareThresholds :
          probe = [fn |-> "none", frame_width |-> w, threshold |-> t,
                   args |-> <<>>, result |-> FALSE]

\* process_frame_with_smoothing: the crop handed to process_and_display_crop
\* and the crop stored in self.previous_crop
SimpleCall(prev_crop, latest_crop) ==
    LET crop_result == SimpleSmoothWith(prev_crop, latest_crop,
                                        probe.frame_width, probe.threshold)
    IN  Called("process_frame_with_smoothing", <<prev_crop, latest_crop>>,
               [crop_result |-> crop_result, previous_crop |-> crop_result])

NextSimple ==
    \E prev_crop \in CompareCrops \cup {None}, latest_crop \in CompareCrops :
        SimpleCall(prev_crop, latest_crop)

SpecSimple == InitSimple /\ [][NextSimple]_vars

-----------------------------------------------------------------------------
(* The crop engine applied to the detections of one frame.  `probe` holds  *)
(* the frame size and the last call.  Widths are multiples of 18, heights  *)
(* multiples of 8 and the heads' x and width even, so that every half,     *)
(* three-quarter and eight-ninth taken by the engine is exact.             *)

\* an empty frame, a frame narrower than 3/4 of its height, the frame of
\* the smoothing runs, a wide frame
CropFrames == {<<0, 0>>, <<54, 80>>, <<FrameWidth, FrameHeight>>, <<144, 80>>}

HeadXs == {0, 16, 40, 64, 68, 80, 130}

\* small heads in the top, middle and bottom of the frame; heads 36 px
\* tall; heads 50 px wide
CropHeads ==
    {Hbb(x, y, 8, 8, 90) : x \in HeadXs, y \in {4, 26, 68}}
    \cup {Hbb(x, y, 8, 36, 90) : x \in HeadXs, y \in {10, 30}}
    \cup {Hbb(x, 26, 50, 8, 90) : x \in {0, 16, 40}}

\* the detections lie inside the frame
HeadsIn(frame_width, frame_height) ==
    {h \in CropHeads : xmax(h) <= frame_width /\ ymax(h) <= frame_height}

\* the points a single crop is centred on, outside the frame too
TargetXs == {-10, 0, 20, 44, 72, 90, 150}

InitCrop ==
    /\ processor = "history"
    /\ smooth_duration = 1
    /\ Constructed
    /\ \E f \in CropFrames :
          probe = [fn |-> "none", frame_width |-> f[1], frame_height |-> f[2],
                   args |-> <<>>, result |-> None]

\* calculate_crop_area(use_stack_crop, is_graphic, frame size, heads)
CropAreaCall(use_stack_crop, is_graphic, heads) ==
    Called("calculate_crop_area", <<use_stack_crop, is_graphic, heads>>,
           calculate_crop_area(use_stack_crop, is_graphic, probe.frame_width,
                               probe.frame_height, heads))

\* make_single_crop_centered(center_x, frame size), as every rule that
\* returns a single crop wraps it
SingleCenteredCall(center_x) ==
    Called("make_single_crop_centered", <<center_x>>,
           Single(make_single_crop_centered(center_x, probe.frame_width,
                                            probe.frame_height)))

NextCrop ==
    \/ \E use_stack_crop \in BOOLEAN, is_graphic \in BOOLEAN :
          LET H == HeadsIn(probe.frame_width, probe.frame_height)
          IN  \/ CropAreaCall(use_stack_crop, is_graphic, <<>>)
              \/ \E h \in H : CropAreaCall(use_stack_crop, is_graphic, <<h>>)
              \/ \E h1 \in H, h2 \in H :
                    CropAreaCall(use_stack_crop, is_graphic, <<h1, h2>>)
    \/ \E center_x \in TargetXs : SingleCenteredCall(center_x)

SpecCrop == InitCrop /\ [][NextCrop]_vars

---------------------------------------------------------------------------
\* CropHistory on its own: any sequence of add, pop_front, peek_front,
\* peek_back and len calls on a buffer created by `new`, with up to
\* MaxPushes records added. `probe` keeps the call, what it returned, the
\* buffer before it, and the records added and returned so far.
MaxPushes == 3

BufferCrops == {FullFrame, SingleAt(42)}

InitBuffer ==
    /\ processor = "history"
    /\ smooth_duration = 1
    /\ Constructed
    /\ probe = [fn |-> "new", result |-> NoFrame, n |-> 0, before |-> <<>>,
                pushed |-> <<>>, popped |-> <<>>]

BufferUnchanged ==
    UNCHANGED <<processor, smooth_duration, previous_crop, previous_head_count,
                rendered, nframes, pc, last, ballvars>>

BufferAdd ==
    /\ Len(probe.pushed) < MaxPushes
    /\ \E crop \in BufferCrops, object_count \in 0..1 :
          LET image == Len(probe.pushed) + 1
          IN  /\ history' = add(history, crop, image, object_count)
              /\ probe' = [probe EXCEPT !.fn = "add", !.result = NoFrame,
                                        !.before = history,
                                        !.pushed = Append(@, FrameData(crop, image,
                                                                       object_count))]
    /\ BufferUnchanged

BufferPopFront ==
    LET r == pop_front(history)
    IN  /\ history' = r.frames
        /\ probe' = [probe EXCEPT !.fn = "pop_front", !.result = r.result,
                                  !.before = history,
                                  !.popped = IF r.result = NoFrame THEN @
                                             ELSE Append(@, r.result)]
        /\ BufferUnchanged

BufferPeekFront ==
    /\ probe' = [probe EXCEPT !.fn = "peek_front", !.result = peek_front(history),
                              !.before = history]
    /\ UNCHANGED history
    /\ BufferUnchanged

BufferPeekBack ==
    /\ probe' = [probe EXCEPT !.fn = "peek_back", !.result = peek_back(history),
                              !.before = history]
    /\ UNCHANGED history
    /\ BufferUnchanged

BufferLen ==
    /\ probe' = [probe EXCEPT !.fn = "len", !.result = NoFrame,
                              !.n = history_len(history), !.before = history]
    /\ UNCHANGED history
    /\ BufferUnchanged

NextBuffer ==
    \/ BufferAdd
    \/ BufferPopFront
    \/ BufferPeekFront
    \/ BufferPeekBack
    \/ BufferLen

SpecBuffer == InitBuffer /\ [][NextBuffer]_vars

---------------------------------------------------------------------------
\* predict_current_hbb on three positions drawn from a grid of even
\* coordinates (half the acceleration is then a whole number), within and
\* beyond the limits max_x and max_y
PredictLimits == {<<FrameWidth, FrameHeight>>, <<1920, 1080>>}

PredictXs == {0, 4, 10, 40, 86}

PredictYs == {0, 6, 30}

PredictSizes == {<<10, 10>>, <<8, 6>>}

InitPredict ==
    /\ processor = "ball"
    /\ smooth_duration = 1
    /\ Constructed
    /\ \E m \in PredictLimits :
          probe = [fn |-> "none", max_x |-> m[1], max_y |-> m[2],
                   args |-> <<>>, result |-> NoHbb]

PredictCall ==
    /\ probe.fn = "none"
    /\ \E x1 \in PredictXs, x2 \in PredictXs, x3 \in PredictXs,
          y1 \in PredictYs, y2 \in PredictYs, y3 \in PredictYs,
          s \in PredictSizes :
          LET three_frames_ago == from_xywh(x1, y1, 10, 10)
              two_frames_ago == from_xywh(x2, y2, 10, 10)
              last_frame == from_xywh(x3, y3, s[1], s[2])
          IN  Called("predict_current_hbb",
                     <<three_frames_ago, two_frames_ago, last_frame>>,
                     predict_current_hbb(three_frames_ago, two_frames_ago,
                                         last_frame, probe.max_x, probe.max_y))

NextPredict == PredictCall

SpecPredict == InitPredict /\ [][NextPredict]_vars

---------------------------------------------------------------------------
\* The crop engine on three and more heads. The three-heads layout takes
\* 0.8, 1.2, 0.72, 0.1 and 0.15 of the frame's height: the frames are 200 px
\* high, where these are whole numbers. The 360 x 200 frame is 16:9, the
\* 216 x 200 frame is narrower than 1.2 * height, and in the 468 x 200 frame
\* half the width at 9:8 is taller than the frame.
ManyFrames == {<<216, 200>>, <<360, 200>>, <<468, 200>>}

MaxHeads == 7

\* small heads across the frame, six of them within 0.75 * height of each
\* other, at the top, middle and bottom, one over the centre line of the
\* 16:9 frame; two heads of 25 times their area; a head wider than half
\* that frame
ManyHeadRow ==
    << Hbb(0, 96, 8, 8, 90), Hbb(110, 96, 8, 8, 90), Hbb(130, 4, 8, 8, 90),
       Hbb(150, 96, 8, 8, 90), Hbb(176, 96, 8, 8, 90), Hbb(200, 96, 8, 8, 90),
       Hbb(234, 96, 8, 8, 90), Hbb(300, 190, 8, 8, 90), Hbb(352, 96, 8, 8, 90),
       Hbb(20, 80, 40, 40, 90), Hbb(300, 80, 40, 40, 90),
       Hbb(80, 96, 200, 8, 90) >>

Reverse(seq) == [i \in 1..Len(seq) |-> seq[Len(seq) + 1 - i]]

InitCropMany ==
    /\ processor = "history"
    /\ smooth_duration = 1
    /\ Constructed
    /\ \E f \in ManyFrames :
          probe = [fn |-> "none", frame_width |-> f[1], frame_height |-> f[2],
                   args |-> <<>>, result |-> None]

\* calculate_crop_area on up to MaxHeads of the detections that lie inside
\* the frame, in either order
ManyHeadsCall ==
    /\ probe.fn = "none"
    /\ \E S \in SUBSET {i \in 1..Len(ManyHeadRow) :
                             xmax(ManyHeadRow[i]) <= probe.frame_width} :
          /\ Cardinality(S) <= MaxHeads
          /\ \E use_stack_crop \in BOOLEAN, is_graphic \in BOOLEAN,
                reversed \in BOOLEAN :
                LET heads == heads_where(ManyHeadRow, S, 1)
                IN  CropAreaCall(use_stack_crop, is_graphic,
                                 IF reversed THEN Reverse(heads) ELSE heads)

NextCropMany == ManyHeadsCall

SpecCropMany == InitCropMany /\ [][NextCropMany]_vars

-----------------------------------------------------------------------------
(* Properties of the history-buffered processor.  `last` holds the frame   *)
(* just processed and the state it was processed in.                       *)

\* the last step was a frame that went through the smoothing step to its end
SmoothedFrame ==
    /\ processor = "history"
    /\ last.branch \in {"seed", "keep", "stash", "extend", "promote", "reject"}
    /\ last.outcome = "ok"

SameClassAndSimilar ==
    /\ is_crop_class_same(last.count, last.prev_count)
    /\ is_crop_similar(last.crop, last.prev, FrameWidth, SmoothPercentage)

\* a previous crop exists and the frame differs from it
ChangeProposed == last.prev # None /\ ~ SameClassAndSimilar

Hypothesis == peek_front(last.frames)

\* the frame agrees with the front of the buffer
HypothesisConfirmed ==
    /\ is_crop_similar(last.crop, Hypothesis.crop, FrameWidth, SmoothPercentage)
    /\ is_crop_class_same(last.count, Hypothesis.head_count)

\* what the last step appended to the output
NewlyRendered == SubSeq(rendered, Len(last.rendered) + 1, Len(rendered))

Replay(crop) == [i \in 1..Len(last.frames) |-> Render(last.frames[i].image, crop)]

\* C1: the frames reach the viewer in arrival order, each at most once and
\* with one crop; the frames replayed by a flush come before the frame that
\* caused the flush.
C1_RenderedInArrivalOrder ==
    /\ \A i \in 1..Len(rendered) : \A j \in 1..Len(rendered) :
          i < j => rendered[i].image < rendered[j].image
    /\ \A i \in 1..Len(rendered) : rendered[i].crop # None
    /\ (SmoothedFrame /\ \E i \in 1..Len(NewlyRendered) :
                            NewlyRendered[i].image = last.img) =>
          /\ Len(NewlyRendered) = Len(last.frames) + 1
          /\ NewlyRendered[Len(NewlyRendered)].image = last.img
          /\ \A i \in 1..Len(last.frames) :
                NewlyRendered[i].image = last.frames[i].image

\* a flush of two buffered frames followed by the frame that caused it
C1_Witness ==
    /\ SmoothedFrame
    /\ Len(last.frames) >= 2
    /\ history = <<>>
    /\ Len(NewlyRendered) = Len(last.frames) + 1
    /\ NewlyRendered[Len(NewlyRendered)].image = last.img

\* C2: when the input has ended, every frame that was fed in has been
\* rendered and none is left in the history buffer.
C2_AllFramesRenderedAtEnd ==
    (processor = "history" /\ pc = "done") =>
        /\ history = <<>>
        /\ Len(rendered) = nframes

\* C3: with smooth_duration >= 1 the buffer never holds more than
\* smooth_duration frames.
C3_BufferBounded ==
    (processor = "history" /\ smooth_duration >= 1) =>
        Len(history) <= smooth_duration

\* a full buffer of two frames has just been flushed by a promotion
C3_Witness ==
    /\ SmoothedFrame
    /\ smooth_duration >= 2
    /\ Len(last.frames) = smooth_duration
    /\ ChangeProposed
    /\ HypothesisConfirmed
    /\ history = <<>>

\* C4: a frame on which a cut is detected while a previous crop exists has
\* every buffered frame replayed with the previous crop, leaves the buffer
\* empty and makes its own crop the previous crop.
C4_CutAdoptsCandidate ==
    (SmoothedFrame /\ last.prev # None /\ last.cut = "cut") =>
        /\ Len(NewlyRendered) >= Len(last.frames)
        /\ SubSeq(NewlyRendered, 1, Len(last.frames)) = Replay(last.prev)
        /\ history = <<>>
        /\ previous_crop = last.crop

\* C5: a changed frame that agrees with the front of a non-empty buffer
\* promotes the hypothesis when the buffer has reached smooth_duration (the
\* buffered frames and the frame are rendered with the hypothesis, the buffer
\* is emptied, the hypothesis becomes the previous crop) and is otherwise
\* appended under the hypothesis with nothing rendered.
C5_ConfirmedHypothesis ==
    (SmoothedFrame /\ ChangeProposed /\ last.frames # <<>> /\ HypothesisConfirmed) =>
        IF Len(last.frames) >= smooth_duration
        THEN /\ NewlyRendered =
                  Append(Replay(Hypothesis.crop), Render(last.img, Hypothesis.crop))
             /\ history = <<>>
             /\ previous_crop = Hypothesis.crop
        ELSE /\ NewlyRendered = <<>>
             /\ history = Append(last.frames,
                    FrameData(Hypothesis.crop, last.img, Hypothesis.head_count))
             /\ previous_crop = last.prev
             /\ previous_head_count = last.prev_count

\* a promotion whose frame carries another crop than the hypothesis
C5_Witness ==
    /\ SmoothedFrame /\ ChangeProposed /\ last.frames # <<>> /\ HypothesisConfirmed
    /\ Len(last.frames) >= smooth_duration
    /\ Len(last.frames) >= 2
    /\ last.crop # Hypothesis.crop
    /\ previous_crop = Hypothesis.crop

\* C6: a changed frame that disagrees with the front of the buffer (and is
\* no cut) has the buffered frames replayed with the hypothesis when the
\* previous crop is Stacked or Resize and the hypothesis is Single, with the
\* previous crop otherwise; the buffer then holds the frame alone.
C6_RejectedHypothesis ==
    (/\ SmoothedFrame /\ ChangeProposed /\ last.frames # <<>>
     /\ ~ HypothesisConfirmed /\ last.cut = "no") =>
        /\ NewlyRendered =
              Replay(IF /\ last.prev.kind \in {"Stacked", "Resize"}
                        /\ Hypothesis.crop.kind = "Single"
                     THEN Hypothesis.crop
                     ELSE last.prev)
        /\ history = <<FrameData(last.crop, last.img, last.count)>>

\* C7: a frame of the previous class with a crop similar to the previous one
\* has the buffered frames and itself rendered with the previous crop,
\* empties the buffer and leaves the previous crop and count as they were.
C7_SimilarFrameKeepsPrevious ==
    (SmoothedFrame /\ last.prev # None /\ SameClassAndSimilar) =>
        /\ NewlyRendered = Append(Replay(last.prev), Render(last.img, last.prev))
        /\ history = <<>>
        /\ previous_crop = last.prev
        /\ previous_head_count = last.prev_count

\* the frame's own crop and count differ from the previous ones, and a
\* buffered frame is replayed
C7_Witness ==
    /\ SmoothedFrame /\ last.prev # None /\ SameClassAndSimilar
    /\ last.crop # last.prev
    /\ last.frames # <<>>
    /\ previous_crop = last.prev

\* C8: a changed frame that finds the buffer empty becomes its only record,
\* is not rendered, and leaves the previous crop and count as they were.
C8_FirstChangeIsStashed ==
    (SmoothedFrame /\ ChangeProposed /\ last.frames = <<>>) =>
        /\ history = <<FrameData(last.crop, last.img, last.count)>>
        /\ NewlyRendered = <<>>
        /\ previous_crop = last.prev
        /\ previous_head_count = last.prev_count

C8_Witness ==
    /\ SmoothedFrame /\ ChangeProposed /\ last.frames = <<>>
    /\ Len(history) = 1
    /\ history[1].image = nframes
    /\ nframes >= 2

\* C9: the first frame, with no previous crop, is rendered with its own crop,
\* which becomes the previous crop, its count the previous count; the buffer
\* stays empty.
C9_FirstFrameAdopted ==
    (SmoothedFrame /\ last.prev = None) =>
        /\ NewlyRendered = <<Render(last.img, last.crop)>>
        /\ previous_crop = last.crop
        /\ previous_head_count = last.count
        /\ history = <<>>

C9_Witness ==
    /\ SmoothedFrame /\ last.prev = None
    /\ nframes = 1
    /\ last.count > 0
    /\ rendered = <<Render(1, last.crop)>>

\* C10: with smooth_duration = 0 every processor renders each frame at once
\* with the frame's own crop, and the smoothing state stays as constructed.
C10_NoSmoothingPassThrough ==
    smooth_duration = 0 =>
        /\ previous_crop = None
        /\ previous_head_count = 0
        /\ history = <<>>
        /\ most_recent_image = NoImage
        /\ hbb_three_frames_ago = NoHbb
        /\ hbb_two_frames_ago = NoHbb
        /\ hbb_last_frame = NoHbb
        /\ cut_detector = NoScore
        /\ pc # "failed" => Len(rendered) = nframes
        /\ (last.branch \notin {"init", "eos", "upstream"} /\ last.outcome = "ok") =>
              /\ last.branch = "passthrough"
              /\ rendered = Append(last.rendered, Render(last.img, last.crop))
              /\ last.prev = None /\ last.frames = <<>>

\* three frames with pairwise different crops, each rendered with its own
C10_Witness ==
    /\ smooth_duration = 0
    /\ nframes = 3
    /\ Len(rendered) = 3
    /\ last.branch = "passthrough"
    /\ rendered[1].crop # rendered[2].crop
    /\ rendered[2].crop # rendered[3].crop
    /\ rendered[3].crop = last.crop

-----------------------------------------------------------------------------
(* Properties of the single-previous processor *)

\* C11: in the single-previous processor a frame whose candidate is similar
\* to an existing previous decision is rendered with the previous decision,
\* which stays the previous decision whatever the object counts are; any
\* other frame is rendered with its candidate, which becomes the previous
\* decision.  Exactly one frame is rendered for the input frame.
C11_SimpleKeepsSimilarPrevious ==
    (last.branch = "simple" /\ last.outcome = "ok") =>
        LET keep == /\ last.prev # None
                    /\ is_crop_similar(last.crop, last.prev, FrameWidth,
                                       SmoothPercentage)
            chosen == IF keep THEN last.prev ELSE last.crop
        IN  /\ rendered = Append(last.rendered, Render(last.img, chosen))
            /\ previous_crop = chosen

\* a two-object candidate 8 px away from the one-object previous decision:
\* another class, yet the previous decision is rendered and kept
C11_Witness ==
    /\ last.branch = "simple" /\ last.outcome = "ok"
    /\ last.prev = SingleAt(42)
    /\ last.crop = SingleAt(50) /\ last.count = 2
    /\ previous_crop = SingleAt(42)
    /\ rendered[Len(rendered)] = Render(last.img, SingleAt(42))

-----------------------------------------------------------------------------
(* Properties of the cut detector *)

C13_ScoreStoredEveryCall ==
    probe.fn = "is_cut" =>
        /\ probe.ok => cut_detector = probe.score
        /\ probe.stored => cut_detector # NoScore

\* a call that reports a cut replaces a different stored score
C13_Witness ==
    /\ probe.fn = "is_cut" /\ probe.ok /\ probe.cut
    /\ probe.before # NoScore /\ probe.before # probe.score
    /\ cut_detector = probe.score

\* C14: when the similarity computation fails in the frame step of the
\* ball processor, the step ends the run with the error: neither verdict is
\* acted on, the detector's stored score is the one it had, and the frame
\* is not rendered.
C14_FailedComparisonPropagates ==
    last.score = ScoreErr =>
        /\ last.outcome = "err" /\ last.cut = "err"
        /\ pc = "failed"
        /\ cut_detector = last.detector
        /\ rendered = last.rendered
        /\ previous_crop = last.prev

\* the third frame's comparison fails after two frames were rendered and
\* a score was stored
C14_Witness ==
    /\ last.score = ScoreErr
    /\ last.detector # NoScore
    /\ nframes = 3 /\ Len(rendered) = 2

-----------------------------------------------------------------------------
(* Properties of the comparators *)

\* the count buckets of the crop rules: 0, 1, 2, 3, 4 to 5, 6 and above
C15_Bucket(n) ==
    CASE n = 0 -> 0
      [] n = 1 -> 1
      [] n = 2 -> 2
      [] n = 3 -> 3
      [] n \in {4, 5} -> 4
      [] OTHER -> 5

\* C15: is_crop_class_same(n1, n2) is true exactly when n1 and n2 are in
\* the same bucket of {0}, {1}, {2}, {3}, {4, 5}, {6 and above}.
C15_SameClassIffSameBucket ==
    probe.fn = "is_crop_class_same" =>
        (probe.result <=> C15_Bucket(probe.args[1]) = C15_Bucket(probe.args[2]))

\* C16: is_crop_similar(d1, d2) is true exactly when d1 and d2 are the same
\* variant and each pair of corresponding rectangles passes
\* is_within_percentage; crops of different variants are never similar.
C16_SimilarIffSameVariantAndWithin ==
    probe.fn = "is_crop_similar" =>
        LET d1 == probe.args[1]
            d2 == probe.args[2]
            within(r1, r2) ==
                is_within_percentage(r1, r2, probe.frame_width, probe.threshold)
        IN  /\ probe.result <=>
                  /\ d1.kind = d2.kind
                  /\ within(d1.a, d2.a)
                  /\ d1.kind = "Stacked" => within(d1.b, d2.b)
            /\ d1.kind # d2.kind => ~ probe.result

\* two stacked crops whose first regions agree and whose second regions
\* differ are not similar
C16_Witness ==
    /\ probe.fn = "is_crop_similar"
    /\ probe.args[1].kind = "Stacked" /\ probe.args[2].kind = "Stacked"
    /\ probe.args[1].a = probe.args[2].a
    /\ probe.frame_width = FrameWidth /\ probe.threshold = SmoothPercentage
    /\ ~ is_within_percentage(probe.args[1].b, probe.args[2].b,
                              probe.frame_width, probe.threshold)
    /\ ~ probe.result

\* C17: r.is_within_percentage(r, frame_width, threshold) is true for every
\* rectangle r, frame width and threshold.
C17_WithinIsReflexive ==
    (probe.fn = "is_within_percentage" /\ probe.args[1] = probe.args[2]) =>
        probe.result

-----------------------------------------------------------------------------
(* Properties of the crop engine *)

C18_NoObjects ==
    probe.fn = "calculate_crop_area" /\ Len(probe.args[3]) = 0

\* C18 as stated: with no objects the graphic result is Resize of exactly
\* the frame; the other result is Single with y = 0, the frame's height,
\* width 0.75 * height and x = (frame_width - width) / 2.
C18_NoObjectsCentred ==
    C18_NoObjects =>
        LET r == probe.result
        IN  IF probe.args[2]
            THEN r = Resize(CropArea(0, 0, probe.frame_width, probe.frame_height))
            ELSE /\ r.kind = "Single"
                 /\ r.a.y = 0 /\ r.a.height = probe.frame_height
                 /\ 4 * r.a.width = 3 * probe.frame_height
                 /\ 2 * r.a.x = probe.frame_width - r.a.width

\* C18: with no objects the graphic result is Resize of exactly the frame;
\* the other result is Single with y = 0, the frame's height, width
\* 0.75 * height and x = (frame_width - width) / 2, or x = 0 where the frame
\* is narrower than that width.
C18_NoObjectsCentredClamped ==
    C18_NoObjects =>
        LET r == probe.result
        IN  IF probe.args[2]
            THEN r = Resize(CropArea(0, 0, probe.frame_width, probe.frame_height))
            ELSE /\ r.kind = "Single"
                 /\ r.a.y = 0 /\ r.a.height = probe.frame_height
                 /\ 4 * r.a.width = 3 * probe.frame_height
                 /\ 2 * r.a.x = Max(probe.frame_width - r.a.width, 0)

\* no objects in the 54 x 80 frame: the 60 px wide crop starts at 0
C18_Witness ==
    /\ C18_NoObjects /\ ~ probe.args[2]
    /\ probe.frame_width = 54
    /\ probe.result = Single(CropArea(0, 0, 60, 80))

C19_SingleReturned ==
    /\ probe.fn \in {"calculate_crop_area", "make_single_crop_centered"}
    /\ probe.result.kind = "Single"

\* C19 as stated: every Single result has y = 0, the frame's height, width
\* 0.75 * height, x >= 0 and x + width <= frame_width.
C19_SingleInsideFrame ==
    C19_SingleReturned =>
        LET a == probe.result.a
        IN  /\ a.y = 0 /\ a.height = probe.frame_height
            /\ 4 * a.width = 3 * probe.frame_height
            /\ a.x >= 0
            /\ a.x + a.width <= probe.frame_width

\* C19: every Single result has y = 0, the frame's height and width
\* 0.75 * height; where the frame is at least that wide, x >= 0 and
\* x + width <= frame_width.
C19_SingleInsideFrameThatFits ==
    C19_SingleReturned =>
        LET a == probe.result.a
        IN  /\ a.y = 0 /\ a.height = probe.frame_height
            /\ 4 * a.width = 3 * probe.frame_height
            /\ a.width <= probe.frame_width =>
                  a.x >= 0 /\ a.x + a.width <= probe.frame_width

\* one head at the right edge of the 90 x 80 frame: the crop centred on it
\* would end at 114 and is moved left to end at 90
C19_Witness ==
    /\ probe.fn = "calculate_crop_area" /\ Len(probe.args[3]) = 1
    /\ probe.frame_width = FrameWidth
    /\ cx(probe.args[3][1]) = 84
    /\ probe.result = Single(CropArea(30, 0, 60, 80))

C20_Contains(crop, head) ==
    /\ crop.x <= xmin(head) /\ xmax(head) <= crop.x + crop.width
    /\ crop.y <= ymin(head) /\ ymax(head) <= crop.y + crop.height

\* C20: two objects whose bounding box is wider than 0.75 * frame_height,
\* stacking allowed: the result is Stacked and each of the two objects lies
\* fully inside at least one of the two regions.
C20_StackedContainsBothObjects ==
    (/\ probe.fn = "calculate_crop_area" /\ Len(probe.args[3]) = 2
     /\ probe.args[1]
     /\ 4 * calculate_bounding_box(probe.args[3]).width > 3 * probe.frame_height) =>
        /\ probe.result.kind = "Stacked"
        /\ \A i \in 1..2 :
              \/ C20_Contains(probe.result.a, probe.args[3][i])
              \/ C20_Contains(probe.result.b, probe.args[3][i])

\* the engine was called on n1..n2 heads
C21_CalledOn(n1, n2) ==
    probe.fn = "calculate_crop_area" /\ Len(probe.args[3]) \in n1..n2

\* the bounding box of the heads is wider than 0.75 * frame_height
C21_WideBox ==
    4 * calculate_bounding_box(probe.args[3]).width > 3 * probe.frame_height

\* three heads of similar area (largest / smallest <= 2.5) and even spacing
\* (larger gap / smaller gap of the sorted centres <= 2.0)
C21_SimilarAndEven ==
    LET heads == probe.args[3]
        areas == {area(heads[i]) : i \in 1..3}
        c == {cx(heads[i]) : i \in 1..3}
        mid == cx(heads[1]) + cx(heads[2]) + cx(heads[3]) - MinOf(c) - MaxOf(c)
        gaps == {mid - MinOf(c), MaxOf(c) - mid}
    IN  /\ MinOf(areas) > 0 /\ 2 * MaxOf(areas) <= 5 * MinOf(areas)
        /\ MinOf(gaps) > 0 /\ MaxOf(gaps) <= 2 * MinOf(gaps)

\* four or five heads, or three that do not take the three-heads layout
C21_FourFiveRule ==
    \/ C21_CalledOn(4, 5)
    \/ C21_CalledOn(3, 3) /\ ~ (C21_SimilarAndEven /\ probe.args[1])

C21_HContains(crop, head) ==
    xmin(head) >= crop.x /\ xmax(head) <= crop.x + crop.width

\* C21: four or five objects (and three that fall through), bounding box
\* wider than 0.75 * frame_height, stacking allowed: the result is Stacked
\* and every object is horizontally inside at least one of the two regions.
C21_StackedHoldsEveryObject ==
    (C21_FourFiveRule /\ C21_WideBox /\ probe.args[1]) =>
        /\ probe.result.kind = "Stacked"
        /\ \A i \in 1..Len(probe.args[3]) :
              \/ C21_HContains(probe.result.a, probe.args[3][i])
              \/ C21_HContains(probe.result.b, probe.args[3][i])

C22_ThreeHeadsLayout ==
    C21_CalledOn(3, 3) /\ C21_SimilarAndEven /\ probe.args[1]

\* the heads of the call, by centre x: the left-most two and the right-most
C22_LeftTwo ==
    LET heads == probe.args[3]
        c == {cx(heads[i]) : i \in 1..3}
    IN  {i \in 1..3 : cx(heads[i]) < MaxOf(c)}

C22_RightMost ==
    LET heads == probe.args[3]
        c == {cx(heads[i]) : i \in 1..3}
    IN  CHOOSE i \in 1..3 : cx(heads[i]) = MaxOf(c)

\* the sizes and y of the two regions of the three-heads layout
C22_Geometry ==
    LET r == probe.result
        H == probe.frame_height
    IN  /\ r.kind = "Stacked"
        /\ 10 * r.a.height = 8 * H /\ 10 * r.a.width = 12 * H /\ 10 * r.a.y = H
        /\ 10 * r.b.height = 8 * H /\ 100 * r.b.width = 72 * H
        /\ 100 * r.b.y = 15 * H

\* C22: three objects of similar area and even spacing, stacking allowed:
\* the result is Stacked(r1, r2), r1 of height 0.8 H, width 1.2 H, y = 0.1 H,
\* r2 of height 0.8 H, width 0.72 H, y = 0.15 H; r1 horizontally contains
\* the two left-most objects and r2 the right-most.
C22_ThreeHeadsStacked ==
    C22_ThreeHeadsLayout =>
        /\ C22_Geometry
        /\ \A i \in C22_LeftTwo : C21_HContains(probe.result.a, probe.args[3][i])
        /\ C21_HContains(probe.result.b, probe.args[3][C22_RightMost])

\* some head has at least 2.5 times the area of every other head
C23_LargeHead ==
    LET heads == probe.args[3]
        I == 1..Len(heads)
    IN  \E i \in I : \A j \in I \ {i} : 2 * area(heads[i]) >= 5 * area(heads[j])

C23_ManyAlike ==
    /\ probe.fn = "calculate_crop_area" /\ Len(probe.args[3]) >= 6
    /\ C21_WideBox /\ ~ C23_LargeHead

C24_CentredOrClamped(center_x, width, frame_width) ==
    LET t == center_x - width \div 2
    IN  IF t < 0 THEN 0
        ELSE IF t + width > frame_width THEN frame_width - width ELSE t

\* C24: without stacking the engine never returns Stacked; for two to five
\* objects whose bounding box is wider than 0.75 * frame_height it returns
\* the Single region centred, before clamping, on an object of the largest
\* area.
C24_NoStackFollowsLargest ==
    (probe.fn = "calculate_crop_area" /\ ~ probe.args[1]) =>
        /\ probe.result.kind # "Stacked"
        /\ (Len(probe.args[3]) \in 2..5 /\ C21_WideBox) =>
              LET heads == probe.args[3]
                  I == 1..Len(heads)
                  a == probe.result.a
              IN  /\ probe.result.kind = "Single"
                  /\ a.y = 0 /\ a.height = probe.frame_height
                  /\ 4 * a.width = 3 * probe.frame_height
                  /\ \E i \in I :
                        /\ \A j \in I : area(heads[i]) >= area(heads[j])
                        /\ a.x = C24_CentredOrClamped(cx(heads[i]), a.width,
                                                      probe.frame_width)

\* four heads in the 468 x 200 frame, the 40 x 40 head at x 300..340 among
\* small ones and not the first, no stacking: the crop is centred on x = 320
C24_Witness ==
    /\ C21_CalledOn(4, 4) /\ ~ probe.args[1] /\ C21_WideBox
    /\ probe.frame_width = 468
    /\ probe.args[3][1].w = 8
    /\ probe.result = Single(CropArea(245, 0, 150, 200))

C25_Inside(crop) ==
    /\ crop.x >= 0 /\ crop.y >= 0
    /\ crop.x + crop.width <= probe.frame_width
    /\ crop.y + crop.height <= probe.frame_height

C25_StackedReturned ==
    probe.fn = "calculate_crop_area" /\ probe.result.kind = "Stacked"

\* C25 as stated: both regions of every Stacked result lie inside the
\* frame: x >= 0, y >= 0, x + width <= frame_width, y + height <= frame_height.
C25_StackedInsideFrame ==
    C25_StackedReturned =>
        C25_Inside(probe.result.a) /\ C25_Inside(probe.result.b)

\* two, four, five, six or more heads, or three that do not take the
\* three-heads layout, within 0.75 * frame_height of each other
C26_CloseGroup ==
    /\ \/ C21_CalledOn(2, 2)
       \/ C21_FourFiveRule
       \/ probe.fn = "calculate_crop_area" /\ Len(probe.args[3]) >= 6
    /\ ~ C21_WideBox

\* C26: two, four, five, six or more objects (and three that do not take
\* the three-heads layout) whose bounding box is no wider than
\* 0.75 * frame_height: with or without stacking the result is the Single
\* region whose horizontal centre is the bounding box's centre, unless it is
\* clamped to a frame edge.
C26_CloseGroupIsBoxCentred ==
    C26_CloseGroup =>
        LET heads == probe.args[3]
            I == 1..Len(heads)
            left == MinOf({xmin(heads[i]) : i \in I})
            right == MaxOf({xmax(heads[i]) : i \in I})
            a == probe.result.a
        IN  /\ probe.result.kind = "Single"
            /\ a.y = 0 /\ a.height = probe.frame_height
            /\ 4 * a.width = 3 * probe.frame_height
            /\ a.x = C24_CentredOrClamped((left + right) \div 2, a.width,
                                          probe.frame_width)

\* six small heads in x 110..242 of the 360 x 200 frame, stacking allowed:
\* the crop is centred on x = 176 and touches no edge
C26_Witness ==
    /\ C26_CloseGroup /\ probe.args[1] /\ Len(probe.args[3]) = 6
    /\ probe.frame_width = 360
    /\ probe.result = Single(CropArea(101, 0, 150, 200))

\* a frame of the ball stream went through the smoothing step
C27_BallStep ==
    processor = "ball" /\ last.branch \notin {"init", "passthrough", "upstream", "eos", "ball"}

\* a non-cut frame without detections
C27_NothingDetected ==
    C27_BallStep /\ last.cut = "no" /\ last.count = 0 /\ last.outcome = "ok"

C27_Rendered == rendered[Len(rendered)]

\* the box one step further along the line from prev to last_frame
C27_Linear(prev, last_frame) ==
    from_xywh(Min(Max(2 * last_frame.x - prev.x, 0), FrameWidth),
              Min(Max(2 * last_frame.y - prev.y, 0), FrameHeight),
              last_frame.w, last_frame.h)

\* C27: with exactly two prior positions the predicted box is
\* last + (last - prev) with the last width and height, and the ball
\* processor renders the single-object crop of it on a non-cut frame
\* without detections.
C27_TwoPositionsExtrapolate ==
    (/\ C27_NothingDetected
     /\ last.hbbs[1] = NoHbb /\ last.hbbs[2] # NoHbb /\ last.hbbs[3] # NoHbb) =>
        /\ Len(rendered) = Len(last.rendered) + 1
        /\ C27_Rendered.crop =
              calculate_single_head_crop(FrameWidth, FrameHeight,
                                         C27_Linear(last.hbbs[2], last.hbbs[3]))

C29_CutAdoptsCandidate ==
    (C27_BallStep /\ last.cut = "cut") =>
        /\ hbb_three_frames_ago = NoHbb /\ hbb_two_frames_ago = NoHbb
        /\ hbb_last_frame = NoHbb
        /\ previous_crop = last.crop
        /\ last.outcome = "ok" =>
              rendered = Append(last.rendered, Render(last.img, last.crop))

\* a cut on a frame with two balls, after frames that were tracked
C29_Witness ==
    /\ C27_BallStep /\ last.cut = "cut" /\ last.outcome = "ok"
    /\ last.count = 2 /\ last.hbbs[3] # NoHbb /\ last.img > 1
    /\ last.prev # last.crop
    /\ hbb_last_frame = NoHbb /\ previous_crop = last.crop

\* C30: on a non-cut frame without detections the ball processor renders
\* the single-object crop of the predictor's box if the three tracked
\* positions the predictor takes are all known; otherwise the previous
\* decision, or the candidate when there is no previous decision.
C30_NothingDetectedFallsBack ==
    C27_NothingDetected =>
        /\ rendered = Append(last.rendered, Render(last.img, C27_Rendered.crop))
        /\ C27_Rendered.crop =
              IF \A k \in 1..3 : last.hbbs[k] # NoHbb
              THEN calculate_single_head_crop(
                       FrameWidth, FrameHeight,
                       predict_current_hbb(last.hbbs[1], last.hbbs[2], last.hbbs[3],
                                           FrameWidth, FrameHeight))
              ELSE IF last.prev # None THEN last.prev ELSE last.crop

\* three tracked positions, then a frame without detections: the crop of
\* the predicted box is rendered, and it is not the previous decision
C30_Witness ==
    /\ C27_NothingDetected
    /\ \A k \in 1..3 : last.hbbs[k] # NoHbb
    /\ C27_Rendered.crop # last.prev
    /\ hbb_last_frame = predict_current_hbb(last.hbbs[1], last.hbbs[2], last.hbbs[3],
                                            FrameWidth, FrameHeight)

\* a non-cut frame of the ball stream with two or more detections
C31_SeveralDetected ==
    C27_BallStep /\ last.cut = "no" /\ last.count >= 2 /\ last.outcome = "ok"

\* C31: on a non-cut frame with two or more detections the ball processor
\* selects an object of the highest confidence (a missing confidence counts
\* as 0), renders the Single crop computed for that object alone and
\* records that object's box as the newest tracked position.
C31_MostConfidentAlone ==
    C31_SeveralDetected =>
        \E i \in 1..Len(last.objects) :
           LET ball == last.objects[i]
           IN  /\ \A j \in 1..Len(last.objects) :
                     confidence_or_zero(last.objects[j]) <= confidence_or_zero(ball)
               /\ rendered = Append(last.rendered, Render(last.img, C27_Rendered.crop))
               /\ C27_Rendered.crop.kind = "Single"
               /\ C27_Rendered.crop =
                     Single(CropArea(C24_CentredOrClamped(cx(ball), 60, FrameWidth),
                                     0, 60, FrameHeight))
               /\ hbb_last_frame.x = ball.x /\ hbb_last_frame.y = ball.y
               /\ hbb_last_frame.w = ball.w /\ hbb_last_frame.h = ball.h

\* two balls, the first without a confidence: the second is followed, not
\* the candidate computed for both
C31_Witness ==
    /\ C31_SeveralDetected
    /\ last.objects[1].conf = NoConf
    /\ C27_Rendered.crop = Single(CropArea(30, 0, 60, 80))
    /\ C27_Rendered.crop # last.crop
    /\ hbb_last_frame.x = 56

\* the boxes held in the three slots, oldest slot first
C32_Held ==
    SelectSeq(<<hbb_three_frames_ago, hbb_two_frames_ago, hbb_last_frame>>,
              LAMBDA h : h # NoHbb)

\* seq ends with tail
C32_EndsWith(seq, tail) ==
    /\ Len(tail) <= Len(seq)
    /\ \A k \in 1..Len(tail) : tail[k] = seq[Len(seq) - Len(tail) + k]

\* C32: the ball processor holds at most three boxes; they are the most
\* recent positions recorded since the last cut, newest last; a position
\* recorded while three are held evicts the oldest.
C32_ThreeMostRecent ==
    processor = "ball" =>
        /\ Len(C32_Held) <= 3
        /\ C32_EndsWith(last.track, C32_Held)
        /\ (/\ C27_BallStep /\ last.cut = "no"
            /\ \A k \in 1..3 : last.hbbs[k] # NoHbb) =>
               /\ hbb_last_frame # NoHbb
               /\ hbb_three_frames_ago = last.hbbs[2]
               /\ hbb_two_frames_ago = last.hbbs[3]
               /\ C32_Held = SubSeq(last.track, Len(last.track) - 2, Len(last.track))

\* four positions were recorded since the cut; the three newest are held
\* and the oldest, a different box, is gone
C32_Witness ==
    /\ processor = "ball" /\ Len(last.track) = 4
    /\ Len(C32_Held) = 3
    /\ last.track[1] # last.track[2]
    /\ hbb_three_frames_ago = last.track[2] /\ hbb_last_frame = last.track[4]

\* the records added and not yet returned, oldest first
C33_Remaining ==
    SubSeq(probe.pushed, Len(probe.popped) + 1, Len(probe.pushed))

\* C33: for any sequence of add, pop_front and peek calls: pop_front returns
\* the records in the order they were added; peek_front and peek_back return
\* the oldest and the newest record and leave the buffer as it was; len is
\* the number of records added minus the number returned by pop_front;
\* pop_front on an empty buffer returns nothing and leaves it empty; add
\* never evicts a record.
C33_BufferIsFifo ==
    /\ probe.popped = SubSeq(probe.pushed, 1, Len(probe.popped))
    /\ history = C33_Remaining
    /\ probe.fn = "add" =>
          /\ Len(history) = Len(probe.before) + 1
          /\ SubSeq(history, 1, Len(probe.before)) = probe.before
    /\ probe.fn = "pop_front" =>
          IF probe.before = <<>>
          THEN probe.result = NoFrame /\ history = <<>>
          ELSE probe.result = probe.before[1] /\ history = Tail(probe.before)
    /\ probe.fn = "peek_front" =>
          /\ history = probe.before
          /\ probe.result = IF history = <<>> THEN NoFrame
                             ELSE probe.pushed[Len(probe.popped) + 1]
    /\ probe.fn = "peek_back" =>
          /\ history = probe.before
          /\ probe.result = IF history = <<>> THEN NoFrame
                             ELSE probe.pushed[Len(probe.pushed)]
    /\ probe.fn = "len" =>
          /\ history = probe.before
          /\ probe.n = Len(probe.pushed) - Len(probe.popped)

\* three records added, the first two returned by pop_front in that order,
\* the third still held
C33_Witness ==
    /\ probe.fn = "pop_front"
    /\ Len(probe.pushed) = 3 /\ Len(probe.popped) = 2
    /\ probe.result = probe.pushed[2]
    /\ probe.pushed[1] # probe.pushed[2]
    /\ history = <<probe.pushed[3]>>

\* some head has at least 2.5 times the area of every other; six or more
\* heads, wider than 0.75 * frame_height, stacking allowed
C34_DominantAmongMany ==
    /\ probe.fn = "calculate_crop_area" /\ Len(probe.args[3]) >= 6
    /\ C21_WideBox /\ C23_LargeHead /\ probe.args[1]

\* C34: six or more objects, one of them dominant, stacking allowed: in
\* every Stacked result the two regions start at least half a region width
\* apart.
C34_RegionsHalfWidthApart ==
    (C34_DominantAmongMany /\ probe.result.kind = "Stacked") =>
        2 * Abs(probe.result.a.x - probe.result.b.x) >= probe.result.a.width

\* C35: in every state of the history-buffered processor all records in
\* the buffer carry the crop and the object count of the front record, and
\* the buffer is non-empty only when a previous decision exists.
C35_BufferCarriesOneHypothesis ==
    processor = "history" =>
        /\ \A i \in 1..Len(history) :
              /\ history[i].crop = history[1].crop
              /\ history[i].head_count = history[1].head_count
        /\ history # <<>> => previous_crop # None

\* a second frame joined the buffer: its own candidate differs from the
\* hypothesis it is stored with
C35_Witness ==
    /\ processor = "history" /\ last.branch = "extend" /\ last.outcome = "ok"
    /\ Len(history) = 2
    /\ history[2].image = last.img
    /\ last.crop # history[1].crop
    /\ history[2].crop = history[1].crop

\* the frame with this number has been handed to the renderer
C36_IsRendered(i) == \E k \in 1..Len(rendered) : rendered[k].image = i

\* C36: as long as no collaborator failed, a frame withheld in the buffer
\* is rendered no later than during the processing of the
\* smooth_duration-th frame that arrives after it: a frame still in the
\* buffer has fewer than smooth_duration frames after it, and every frame
\* that is no longer in the buffer has been rendered.
C36_WithheldIsRenderedInTime ==
    (processor = "history" /\ pc # "failed") =>
        /\ \A k \in 1..Len(history) :
              nframes - history[k].image < smooth_duration
        /\ \A i \in 1..nframes :
              \/ \E k \in 1..Len(history) : history[k].image = i
              \/ C36_IsRendered(i)

\* a frame was withheld for as long as the bound allows and is rendered
\* by the frame that rejects its hypothesis
C36_Witness ==
    /\ processor = "history" /\ pc # "failed"
    /\ smooth_duration = 2
    /\ last.branch = "reject" /\ last.outcome = "ok"
    /\ Len(last.frames) = 2
    /\ last.frames[1].image = nframes - 2
    /\ C36_IsRendered(nframes - 2)
    /\ ~ \E k \in 1..Len(last.rendered) : last.rendered[k].image = nframes - 2

\* the last frame gave the previous decision a new value
C37_DecisionChanged ==
    /\ processor = "history"
    /\ last.branch \in {"seed", "keep", "stash", "extend", "promote", "reject"}
    /\ last.prev # None
    /\ previous_crop # last.prev

\* C37: once seeded, and apart from a detected cut, the previous decision
\* takes a new value only by promotion of a hypothesis, and only when the
\* frame is the last of smooth_duration + 1 consecutive frames that each
\* proposed a change, each after the first with a candidate similar and
\* class-equivalent to the first one; the new value is the first one's.
C37_ChangeOnlyByPromotion ==
    (C37_DecisionChanged /\ last.cut # "cut") =>
        /\ last.branch = "promote"
        /\ Len(last.streak) = smooth_duration + 1
        /\ previous_crop = last.streak[1].crop

\* a hypothesis was promoted after three frames, the middle one with a
\* candidate of its own
C37_Witness ==
    /\ C37_DecisionChanged
    /\ smooth_duration = 2
    /\ last.branch = "promote"
    /\ Len(last.streak) = 3
    /\ last.streak[2].crop # last.streak[1].crop
    /\ previous_crop = last.streak[1].crop

\* the simple processor has handled a frame
C38_Handled == probe.fn = "process_frame_with_smoothing"

\* the crop rendered is similar to the frame's candidate, and it is the
\* crop stored as previous
C38_SimilarAndStored ==
    /\ is_crop_similar(probe.result.crop_result, probe.args[2],
                       probe.frame_width, probe.threshold)
    /\ probe.result.previous_crop = probe.result.crop_result

\* C38: on every frame of the simple processor the decision rendered is
\* similar, under the configured threshold, to the frame's own candidate,
\* and the stored previous decision equals the decision rendered.
C38_RenderedSimilarToCandidate == C38_Handled => C38_SimilarAndStored

\* C38 on frames of positive width
C38_OnPositiveWidth ==
    (C38_Handled /\ probe.frame_width > 0) => C38_SimilarAndStored

\* the call before this one reported a cut, and this one returned Ok
C39_AfterACut == probe.fn = "is_cut" /\ probe.last_cut /\ probe.ok

\* C39: on a detector with similarity_threshold <= previous_similarity_threshold
\* two consecutive is_cut calls never both report a cut unless the score
\* of the second is below the hard floor.
C39_NoTwoCutsInARow ==
    (/\ C39_AfterACut
     /\ probe.similarity_threshold <= probe.previous_similarity_threshold
     /\ probe.cut)
        => probe.score < HardFloor

\* after a cut a score under the similarity threshold is not a cut
C39_Witness ==
    /\ C39_AfterACut
    /\ probe.similarity_threshold <= probe.previous_similarity_threshold
    /\ probe.score >= HardFloor
    /\ probe.score < probe.similarity_threshold
    /\ ~ probe.cut

\* the positions held after the last frame, oldest slot first
C40_Slots == <<hbb_three_frames_ago, hbb_two_frames_ago, hbb_last_frame>>

\* the first frame is a cut, and the cut detector was not called for it
C40_FirstFrameIsCut ==
    last.img = 1 =>
        /\ last.cut = "cut"
        /\ last.score = NoScore
        /\ cut_detector = NoScore

\* a cut frame records nothing, whatever was detected on it
C40_CutRecordsNothing ==
    last.cut = "cut" => C40_Slots = <<NoHbb, NoHbb, NoHbb>>

\* a prediction is made only when the three frames before it were non-cut
\* frames after the last cut and each recorded a position
C40_PredictionNeedsThree ==
    last.branch = "predicted" =>
        LET n == Len(last.slots)
        IN  /\ n >= 4
            /\ \A i \in (n - 3)..(n - 1) : last.slots[i] # NoHbb

\* a frame without detections and without three positions records an
\* empty slot
C40_EmptySlot ==
    (/\ last.cut = "no" /\ last.objects = <<>>
     /\ \E i \in 1..3 : last.hbbs[i] = NoHbb)
        => /\ last.branch \in {"previous", "latest"}
           /\ C40_Slots = <<last.hbbs[2], last.hbbs[3], NoHbb>>
           /\ last.slots[Len(last.slots)] = NoHbb

\* C40: the first frame of a stream is treated as a cut without calling
\* the cut detector; after a cut no prediction is made until three
\* consecutive later non-cut frames have each recorded a position; the box
\* detected on the cut frame is not recorded; a frame without detections and
\* without enough history records an empty slot.
C40_CutRestartsTracking ==
    C27_BallStep =>
        /\ C40_FirstFrameIsCut
        /\ C40_CutRecordsNothing
        /\ C40_PredictionNeedsThree
        /\ C40_EmptySlot

\* the earliest prediction after a cut: the fourth frame after it
C40_Witness ==
    /\ C27_BallStep
    /\ last.branch = "predicted"
    /\ Len(last.slots) = 4
    /\ \A i \in 1..3 : last.slots[i] = last.hbbs[i]

====
